---- MODULE Spec2Model ----
(***************************************************************************)
(* Model of the document-ingestion service: the HTTP API (api.py), the     *)
(* database access layer (db_data.py), the file extraction orchestrator    *)
(* (data_utils.py, pdf_reader.py, llm_agent.py) and the CLI (main.py).     *)
(*                                                                         *)
(* Strings the code inspects (file names, prompts) are sequences of        *)
(* one-character strings, so that lower(), endswith() and strip() are      *)
(* computed rather than assumed.  Optional values are sequences of length  *)
(* 0 (None) or 1.  Calls to boundary systems (ODBC, OCR, LLM) take their   *)
(* outcome from a small set: they return, or they raise.                   *)
(***************************************************************************)
EXTENDS Integers, Sequences, FiniteSets, TLC

VARIABLES
    Requests,   \* the Requests table: Requests[RecId] is the row
    hist,       \* per RecId, the committed statements and extraction runs, in order
    tmp,        \* the staging files ever created: does it exist, has its operation ended
    tasks,      \* the background tasks added by run_pipeline
    last,       \* the exchange in progress: a request answered, or a CLI run ended
    gui         \* the comparison window: its selectors, worker threads and main loop

vars == <<Requests, hist, tmp, tasks, last, gui>>

----------------------------------------------------------------------------
(* Bounds of the model *)

MaxRec == 2
MaxFiles == 2

----------------------------------------------------------------------------
(* Optional values and text *)

None == <<>>
Some(v) == <<v>>
IsSome(opt) == opt # None
\* Python truthiness of an optional string: neither None nor "".
Truthy(opt) == opt # None /\ opt[1] # <<>>

LowerChar(c) ==
    CASE c = "A" -> "a" [] c = "B" -> "b" [] c = "C" -> "c" [] c = "D" -> "d"
      [] c = "E" -> "e" [] c = "F" -> "f" [] c = "G" -> "g" [] c = "H" -> "h"
      [] c = "I" -> "i" [] c = "J" -> "j" [] c = "K" -> "k" [] c = "L" -> "l"
      [] c = "M" -> "m" [] c = "N" -> "n" [] c = "O" -> "o" [] c = "P" -> "p"
      [] c = "Q" -> "q" [] c = "R" -> "r" [] c = "S" -> "s" [] c = "T" -> "t"
      [] c = "U" -> "u" [] c = "V" -> "v" [] c = "W" -> "w" [] c = "X" -> "x"
      [] c = "Y" -> "y" [] c = "Z" -> "z" [] c = "À" -> "à"
      [] OTHER -> c

Lower(s) == [i \in 1..Len(s) |-> LowerChar(s[i])]

EndsWith(s, suf) ==
    /\ Len(s) >= Len(suf)
    /\ SubSeq(s, Len(s) - Len(suf) + 1, Len(s)) = suf

IsSpace(c) == c \in {" ", "\t", "\n"}

RECURSIVE LStrip(_)
LStrip(s) == IF s # <<>> /\ IsSpace(s[1]) THEN LStrip(Tail(s)) ELSE s

RECURSIVE RStrip(_)
RStrip(s) ==
    IF s # <<>> /\ IsSpace(s[Len(s)]) THEN RStrip(SubSeq(s, 1, Len(s) - 1)) ELSE s

Strip(s) == RStrip(LStrip(s))

----------------------------------------------------------------------------
(* Status codes of a Request record *)

StatusQueued == 1
StatusProcessing == 2
StatusDone == 4
StatusPdfError == 97
StatusPipelineError == 98
StatusCreateError == 99

TerminalStatus == {StatusDone, StatusPdfError, StatusPipelineError, StatusCreateError}

----------------------------------------------------------------------------
(* Database access layer (db_data.py).  Each operation opens a connection, *)
(* executes, commits and closes.  A call returns ("ok"), raises before its *)
(* commit ("raise_before": connect, open or execute failed, nothing is     *)
(* written) or raises after it ("raise_after": the commit reached the      *)
(* server and a later statement of the same function failed).              *)

DbOutcome == {"ok", "raise_before", "raise_after"}

Committed(o) == o # "raise_before"
Raised(o) == o # "ok"

Event(e, v) == [ev |-> e, val |-> v]

\* The Status lookup join: the description mapped to a code.
Description(status) == [descOf |-> status]

\* INSERT INTO Requests (Filename, UploadDate, Data, Status, User_Prompt)
NewRow(file_path, original_filename, user_prompt) ==
    [ Filename      |-> IF Truthy(original_filename) THEN original_filename[1] ELSE <<>>,
      Data          |-> IF IsSome(file_path) THEN file_path ELSE None,
      Status        |-> StatusQueued,
      User_Prompt   |-> user_prompt,
      ExtractedText |-> None,
      ExtractedData |-> None ]

\* record_data: the RecId the INSERT assigns, the table and the history after the call.
NextRecId == Len(Requests) + 1

RecordDataRows(rows, file_path, original_filename, user_prompt, o) ==
    IF Committed(o)
    THEN Append(rows, NewRow(file_path, original_filename, user_prompt))
    ELSE rows

RecordDataHist(h, o) ==
    IF Committed(o) THEN Append(h, <<Event("status", StatusQueued)>>) ELSE h

\* update_status: UPDATE Requests SET Status = ? WHERE RecId = ?
\* update_status without its WHERE clause.
UpdateStatusRowsNoWhere(rows, recid, status, o) ==
    IF Committed(o)
    THEN [r \in DOMAIN rows |-> [rows[r] EXCEPT !.Status = status]]
    ELSE rows

UpdateStatusRows(rows, recid, status, o) ==
    IF Committed(o) /\ recid \in DOMAIN rows
    THEN [rows EXCEPT ![recid].Status = status]
    ELSE rows

UpdateStatusHist(h, recid, status, o) ==
    IF Committed(o) /\ recid \in DOMAIN h
    THEN [h EXCEPT ![recid] = Append(@, Event("status", status))]
    ELSE h

\* save_extraction_results: UPDATE Requests SET ExtractedText = ?, ExtractedData = ?
Str(data) == <<"str", data>>

SaveExtractionRows(rows, recid, text, data, o) ==
    IF Committed(o) /\ recid \in DOMAIN rows
    THEN [rows EXCEPT ![recid].ExtractedText = Some(text),
                      ![recid].ExtractedData = Some(Str(data))]
    ELSE rows

SaveExtractionHist(h, recid, o) ==
    IF Committed(o) /\ recid \in DOMAIN h
    THEN [h EXCEPT ![recid] = Append(@, Event("save", 0))]
    ELSE h

\* get_status_by_recid: the description of the row's Status, None when no row.
GetStatusByRecid(recid) ==
    IF recid \in DOMAIN Requests
    THEN Some(Description(Requests[recid].Status))
    ELSE None

----------------------------------------------------------------------------
(* OCR text extractor (pdf_reader.py), LLM extraction agent (llm_agent.py) *)
(* and the orchestrator composing them (data_utils.py).  A result is       *)
(* [ok, val, cls, msg, calls]: the value returned, or the class and the    *)
(* message parts of the exception raised, and the boundary calls made.     *)

OcrOutcome == {"ok", "conversion_failed", "file_not_found", "ocr_failed"}
LlmOutcome == {"valid_json", "loads_repairable", "repair_only", "unparseable", "call_failed"}
Providers == {"openai", "openrouter", "azure"}

Return(v, calls) == [ok |-> TRUE, val |-> v, cls |-> "", msg |-> <<>>, calls |-> calls]
Raise(cls, msg, calls) == [ok |-> FALSE, val |-> <<>>, cls |-> cls, msg |-> msg, calls |-> calls]

OcrText == <<"ocr-text">>

\* extract_text_from_pdf: convert_from_path, then image_to_string per page.
\* "file_not_found" is convert_from_path raising FileNotFoundError (a file
\* the conversion needs is missing); like every conv_err it is re-raised as
\* RuntimeError by the inner and by the outer except clause.
ExtractTextFromPdf(ocr) ==
    IF ocr = "conversion_failed"
    THEN Raise("RuntimeError",
               <<"Errore durante l'OCR: ", "PDF conversion failed: ", "conv_err">>, <<"ocr">>)
    ELSE IF ocr = "file_not_found"
    THEN Raise("RuntimeError",
               <<"Errore durante l'OCR: ", "PDF conversion failed: ", "No such file or directory">>,
               <<"ocr">>)
    ELSE IF ocr = "ocr_failed"
    THEN Raise("RuntimeError", <<"Errore durante l'OCR: ", "tesseract_err">>, <<"ocr">>)
    ELSE Return(OcrText, <<"ocr">>)

\* The three parsers of the reply, by the kind of reply they accept.
JsonLoadsOk(reply) == reply = "valid_json"
JrLoadsOk(reply) == reply \in {"valid_json", "loads_repairable"}
JrRepairOk(reply) == reply \in {"valid_json", "loads_repairable", "repair_only"}

\* The raw reply chain.run returned: a reply is named by the parsers that
\* accept it, and its text is a message part like any other.
Response(llm) == llm

\* The agent trying the self-repairing parser before the strict one.
ExtractDataFromTextRepairFirst(text, provider, llm) ==
    IF provider \notin {"openai", "openrouter"}
    THEN Raise("ValueError", <<"Provider '", provider, "' non supportato.">>, <<"llm_agent">>)
    ELSE IF llm = "call_failed"
    THEN Raise("RuntimeError", <<"Errore chiamata LLM: ", "llm_err">>, <<"llm_agent", "llm">>)
    ELSE IF JrLoadsOk(llm)
    THEN Return(<<"jr_loads", llm>>, <<"llm_agent", "llm", "jr_loads">>)
    ELSE IF JsonLoadsOk(llm)
    THEN Return(<<"json.loads", llm>>, <<"llm_agent", "llm", "jr_loads", "json.loads">>)
    ELSE IF JrRepairOk(llm)
    THEN Return(<<"jr_repair", llm>>,
                <<"llm_agent", "llm", "jr_loads", "json.loads", "jr_repair">>)
    ELSE Raise("RuntimeError",
               <<"Parsing JSON fallito anche dopo i tentativi di riparazione.">>,
               <<"llm_agent", "llm", "jr_loads", "json.loads", "jr_repair">>)

\* extract_data_from_text: provider check, chain.run, then the parse chain.
ExtractDataFromText(text, provider, llm) ==
    IF provider \notin {"openai", "openrouter"}
    THEN Raise("ValueError", <<"Provider '", provider, "' non supportato.">>, <<"llm_agent">>)
    ELSE IF llm = "call_failed"
    THEN Raise("RuntimeError", <<"Errore chiamata LLM: ", "llm_err">>, <<"llm_agent", "llm">>)
    ELSE IF JsonLoadsOk(llm)
    THEN Return(<<"json.loads", llm>>, <<"llm_agent", "llm", "json.loads">>)
    ELSE IF JrLoadsOk(llm)
    THEN Return(<<"jr_loads", llm>>, <<"llm_agent", "llm", "json.loads", "jr_loads">>)
    ELSE IF JrRepairOk(llm)
    THEN Return(<<"jr_repair", llm>>,
                <<"llm_agent", "llm", "json.loads", "jr_loads", "jr_repair">>)
    ELSE Raise("RuntimeError",
               <<"Parsing JSON fallito anche dopo i tentativi di riparazione.">>,
               <<"llm_agent", "llm", "json.loads", "jr_loads", "jr_repair">>)

ProcessingPhrase == "Errore durante l'elaborazione del file data: "

\* The orchestrator letting the exception of a stage through as it is.
ExtractDataFromFileUnwrapped(provider, ocr, llm) ==
    LET t == ExtractTextFromPdf(ocr) IN
    IF ~t.ok
    THEN t
    ELSE LET d == ExtractDataFromText(t.val, provider, llm) IN
         IF ~d.ok
         THEN Raise(d.cls, d.msg, t.calls \o d.calls)
         ELSE Return([text |-> t.val, data |-> d.val, provider |-> provider],
                     t.calls \o d.calls)

\* The orchestrator calling the agent whatever the OCR returned.
ExtractDataFromFileEager(provider, ocr, llm) ==
    LET t == ExtractTextFromPdf(ocr)
        d == ExtractDataFromText(t.val, provider, llm) IN
    IF ~t.ok
    THEN Raise("RuntimeError", <<ProcessingPhrase>> \o t.msg, t.calls \o d.calls)
    ELSE IF ~d.ok
    THEN Raise("RuntimeError", <<ProcessingPhrase>> \o d.msg, t.calls \o d.calls)
    ELSE Return([text |-> t.val, data |-> d.val, provider |-> provider], t.calls \o d.calls)

\* extract_data_from_file: OCR, then the agent; any exception becomes RuntimeError.
ExtractDataFromFile(provider, ocr, llm) ==
    LET t == ExtractTextFromPdf(ocr) IN
    IF ~t.ok
    THEN Raise("RuntimeError", <<ProcessingPhrase>> \o t.msg, t.calls)
    ELSE LET d == ExtractDataFromText(t.val, provider, llm) IN
         IF ~d.ok
         THEN Raise("RuntimeError", <<ProcessingPhrase>> \o d.msg, t.calls \o d.calls)
         ELSE Return([text |-> t.val, data |-> d.val, provider |-> provider],
                     t.calls \o d.calls)

----------------------------------------------------------------------------
(* Inputs *)

DocTxt == <<"d", "o", "c", ".", "t", "x", "t">>
Doc == <<"d", "o", "c">>
DocPdfExe == <<"d", "o", "c", ".", "P", "D", "F", ".", "e", "x", "e">>
APdf == <<"a", ".", "p", "d", "f">>
UpperPdf == <<"A", ".", "P", "D", "F">>
MixedJpg == <<"x", ".", "J", "p", "G">>
XJpeg == <<"x", ".", "j", "p", "e", "g">>
XPng == <<"x", ".", "P", "n", "g">>
BarePdf == <<"p", "d", "f">>
DotPdf == <<".", "p", "d", "f">>
PdfDot == <<"a", ".", "p", "d", "f", ".">>

FileNames ==
    {DocTxt, Doc, DocPdfExe, APdf, UpperPdf, MixedJpg, XJpeg, XPng, BarePdf, DotPdf, PdfDot}

Prompts ==
    { None,
      Some(<<>>),
      Some(<<" ">>),
      Some(<<" ", "\t">>),
      Some(<<"p">>),
      Some(<<" ", "p", " ">>) }

SupportedExtensions ==
    { <<".", "p", "d", "f">>, <<".", "p", "n", "g">>,
      <<".", "j", "p", "g">>, <<".", "j", "p", "e", "g">> }

\* The check without lower().
ExtensionOkCaseSensitive(filename) == \E suf \in SupportedExtensions : EndsWith(filename, suf)

\* file.filename.lower().endswith((".pdf", ".png", ".jpg", ".jpeg"))
ExtensionOk(filename) == \E suf \in SupportedExtensions : EndsWith(Lower(filename), suf)

TmpPath(n) == [kind |-> "tmp", id |-> n, name |-> <<>>]
UserPath(name) == [kind |-> "user", id |-> 0, name |-> name]

----------------------------------------------------------------------------
(* glocal_ai_confronto_gui: the provider and model selectors.  A change of   *)
(* provider starts a worker thread that fetches the provider's models and    *)
(* schedules update_ui with root.after(0, ...); the main loop runs the       *)
(* scheduled callbacks one at a time, in the order they were scheduled.      *)

MaxWorkers == 3

GuiProviders == {"openai", "openrouter"}

\* The sorted model ids a provider's API returns.
Models(provider) ==
    IF provider = "openai"
    THEN <<<<"g", "p", "t", "-", "3", ".", "5", "-", "t", "u", "r", "b", "o">>,
           <<"g", "p", "t", "-", "4">>>>
    ELSE <<<<"m", "e", "t", "a", "/", "l", "l", "a", "m", "a">>,
           <<"o", "p", "e", "n", "a", "i", "/", "g", "p", "t", "-", "4">>>>

\* fetch_models_for_provider: the list, or [] when the key is missing or the
\* request fails.
FetchModelsForProvider(provider, net) ==
    IF net = "ok" THEN Models(provider) ELSE <<>>

NewWorker(provider) == [provider |-> provider, pc |-> "fetching", models |-> <<>>]

\* The window as the constructor leaves it: create_widgets calls
\* update_model_list, and update_llm_options_state calls it again because the
\* model selector is still empty.
GuiInit ==
    [provider_var |-> "openai",
     model_var |-> <<"g", "p", "t", "-", "3", ".", "5", "-", "t", "u", "r", "b", "o">>,
     filter_var |-> <<>>,
     model_full_list |-> <<>>,
     combo_values |-> <<>>,
     workers |-> <<NewWorker("openai"), NewWorker("openai")>>,
     after |-> <<>>,
     writers |-> {}]

----------------------------------------------------------------------------
(* Initial state: an empty table, no staging file, no task, no exchange. *)

NoExchange == [op |-> "none", code |-> 0]

Init ==
    /\ Requests = <<>>
    /\ hist = <<>>
    /\ tmp = <<>>
    /\ tasks = <<>>
    /\ last = NoExchange
    /\ gui = GuiInit

\* A staging file as NamedTemporaryFile(delete=False) leaves it.
NewTmp == [exists |-> TRUE, ended |-> FALSE]

----------------------------------------------------------------------------
(* POST /upload-pdf *)

\* record_data takes three positional parameters, none with a default.
RecordDataParams == 3
\* upload_pdf calls record_data(tmp_path, file.filename).
UploadPdfCallArgs == 2

UploadPdf(filename, o) ==
    /\ last = NoExchange
    /\ Len(tmp) < MaxFiles
    /\ UNCHANGED tasks
    /\ IF ~ExtensionOk(filename)
       THEN /\ last' = [op |-> "upload", filename |-> filename, code |-> 400,
                        staged |-> 0, created |-> 0, dbRaised |-> FALSE, cls |-> "HTTPException"]
            /\ UNCHANGED <<Requests, hist, tmp>>
       ELSE \* the try block: stage the upload, then record it; finally: pass
            /\ tmp' = Append(tmp, [NewTmp EXCEPT !.ended = TRUE])
            /\ IF UploadPdfCallArgs < RecordDataParams
               THEN \* TypeError: missing required positional argument
                    /\ last' = [op |-> "upload", filename |-> filename, code |-> 500,
                                staged |-> 1, created |-> 0,
                                dbRaised |-> FALSE, cls |-> "TypeError"]
                    /\ UNCHANGED <<Requests, hist>>
               ELSE /\ Requests' = RecordDataRows(Requests, Some(TmpPath(Len(tmp) + 1)), Some(filename), None, o)
                    /\ hist' = RecordDataHist(hist, o)
                    /\ last' = [op |-> "upload", filename |-> filename,
                                code |-> IF Raised(o) THEN 500 ELSE 200,
                                staged |-> 1,
                                created |-> Len(Requests') - Len(Requests),
                                dbRaised |-> Raised(o),
                                cls |-> IF Raised(o) THEN "pyodbc.Error" ELSE ""]
    /\ UNCHANGED gui

----------------------------------------------------------------------------
(* GET /status/{recid} *)

\* The handler's try block: the lookup, then 404 when it yields None.
GetStatusTry(recid, o) ==
    IF o # "ok" THEN [raised |-> TRUE, cls |-> "pyodbc.Error", code |-> 0]
    ELSE IF GetStatusByRecid(recid) = None
    THEN [raised |-> TRUE, cls |-> "HTTPException", code |-> 404]
    ELSE [raised |-> FALSE, cls |-> "", code |-> 200]

\* The classes `except Exception` catches: HTTPException derives from Exception.
ExceptionSubclasses ==
    {"HTTPException", "TypeError", "ValueError", "RuntimeError", "AttributeError",
     "FileNotFoundError", "pyodbc.Error"}

\* except Exception as e: raise HTTPException(status_code=500, ...)
GetStatusCode(recid, o) ==
    LET r == GetStatusTry(recid, o) IN
    IF r.raised /\ r.cls \in ExceptionSubclasses THEN 500 ELSE r.code

GetStatus(recid, o) ==
    /\ last = NoExchange
    /\ last' = [op |-> "status", recid |-> recid, code |-> GetStatusCode(recid, o),
                exists |-> recid \in DOMAIN Requests, dbRaised |-> o # "ok"]
    /\ UNCHANGED <<Requests, hist, tmp, tasks>>
    /\ UNCHANGED gui

----------------------------------------------------------------------------
(* POST /extract-data *)

\* The except clauses of extract_data, in order.
ExtractDataCode(res) ==
    IF res.ok THEN 200
    ELSE IF res.cls = "FileNotFoundError" THEN 404
    ELSE IF res.cls = "RuntimeError" THEN 500
    ELSE 500

ExtractData(provider, ocr, llm) ==
    LET res == ExtractDataFromFile(provider, ocr, llm) IN
    /\ last = NoExchange
    /\ Len(tmp) < MaxFiles
    \* os.unlink(temp_path) follows the orchestrator call inside the try block
    /\ tmp' = Append(tmp, [NewTmp EXCEPT !.exists = ~res.ok, !.ended = TRUE])
    /\ last' = [op |-> "extract", code |-> ExtractDataCode(res), ocr |-> ocr, llm |-> llm,
                provider |-> provider, staged |-> 1, res |-> res]
    /\ UNCHANGED <<Requests, hist, tasks>>
    /\ UNCHANGED gui

----------------------------------------------------------------------------
(* POST /pipelines *)

JsonTypes == {"application/json", "application/json; charset=utf-8"}
FormTypes == {"multipart/form-data; boundary=b", "application/x-www-form-urlencoded"}
OtherTypes == {"text/plain", ""}

\* A request: its Content-Type, how its body parses ("object", "array" or
\* "malformed" for JSON; "form" or "malformed" for a form), and the fields sent.
PipelineRequests ==
    [ct : JsonTypes, body : {"object"}, file : {None}, user_prompt : Prompts]
    \cup [ct : JsonTypes, body : {"array", "malformed"}, file : {None}, user_prompt : {None}]
    \cup [ct : FormTypes, body : {"form"},
          file : {None, Some(APdf)},
          user_prompt : Prompts]
    \cup [ct : FormTypes, body : {"malformed"}, file : {None}, user_prompt : {None}]
    \cup [ct : OtherTypes, body : {"malformed"}, file : {None}, user_prompt : {None}]

\* decode_body: [code, body]; code 0 when the body was decoded.
DecodeBody(req) ==
    IF req.ct \in JsonTypes
    THEN IF req.body = "malformed" THEN [code |-> 400, body |-> "none"]
         ELSE [code |-> 0, body |-> req.body]
    ELSE IF req.ct \in FormTypes
    THEN IF req.body = "malformed" THEN [code |-> 400, body |-> "none"]
         ELSE [code |-> 0, body |-> "form"]
    ELSE [code |-> 400, body |-> "none"]

\* The prompt without strip().
UserPromptUntrimmed(req) ==
    IF Truthy(req.user_prompt) THEN req.user_prompt ELSE None

\* (body.get("user_prompt") or "").strip(), then None when empty
UserPrompt(req) ==
    LET raw == Strip(IF Truthy(req.user_prompt) THEN req.user_prompt[1] ELSE <<>>)
    IN IF raw # <<>> THEN Some(raw) ELSE None

\* body.get("file") if is_form else None
UploadedFile(req, body) == IF body = "form" THEN req.file ELSE None

NewTask(tmp_path, recid) ==
    [tmp_path |-> tmp_path, recid |-> recid, pc |-> "update2",
     failed |-> FALSE]

PipelineAnswer(req, code, staged, created, scheduled, raised) ==
    [op |-> "pipeline", req |-> req, code |-> code, staged |-> staged,
     created |-> created, scheduled |-> scheduled, dbRaised |-> raised]

RunPipeline(req, o) ==
    LET d == DecodeBody(req)
        uploaded_file == UploadedFile(req, d.body)
        user_prompt == UserPrompt(req)
        staged == IF IsSome(uploaded_file) THEN 1 ELSE 0
        tmp_path == IF IsSome(uploaded_file) THEN Some(TmpPath(Len(tmp) + 1)) ELSE None
        \* recid is assigned only when record_data returns
        recid == IF Raised(o) THEN None ELSE Some(NextRecId)
        rows == RecordDataRows(Requests, tmp_path, uploaded_file, user_prompt, o)
    IN
    /\ last = NoExchange
    /\ Len(tmp) < MaxFiles
    /\ Len(Requests) < MaxRec
    /\ IF d.code # 0
       THEN /\ last' = PipelineAnswer(req, d.code, 0, 0, 0, FALSE)
            /\ UNCHANGED <<Requests, hist, tmp, tasks>>
       ELSE IF d.body = "array"
       THEN \* body.get on a list: AttributeError outside the try block
            /\ last' = PipelineAnswer(req, 500, 0, 0, 0, FALSE)
            /\ UNCHANGED <<Requests, hist, tmp, tasks>>
       ELSE IF ~IsSome(uploaded_file) /\ ~IsSome(user_prompt)
       THEN /\ last' = PipelineAnswer(req, 400, 0, 0, 0, FALSE)
            /\ UNCHANGED <<Requests, hist, tmp, tasks>>
       ELSE /\ tmp' = IF IsSome(uploaded_file)
                      THEN Append(tmp, [NewTmp EXCEPT !.ended = Raised(o)])
                      ELSE tmp
            /\ IF ~Raised(o)
               THEN /\ Requests' = rows
                    /\ hist' = RecordDataHist(hist, o)
                    /\ tasks' = Append(tasks, NewTask(tmp_path, recid[1]))
                    /\ last' = PipelineAnswer(req, 200, staged, 1, 1, FALSE)
               ELSE \* except: if recid: update_status(recid, 99)
                    \E o99 \in IF IsSome(recid) THEN DbOutcome ELSE {"ok"} :
                    /\ Requests' = IF IsSome(recid)
                                   THEN UpdateStatusRows(rows, recid[1], StatusCreateError, o99)
                                   ELSE rows
                    /\ hist' = IF IsSome(recid)
                               THEN UpdateStatusHist(RecordDataHist(hist, o), recid[1], StatusCreateError, o99)
                               ELSE RecordDataHist(hist, o)
                    /\ tasks' = tasks
                    /\ last' = PipelineAnswer(req, 500, staged,
                                              Len(rows) - Len(Requests), 0, TRUE)
    /\ UNCHANGED gui

----------------------------------------------------------------------------
(* The exchange is over: the response is sent, or the CLI process exits.    *)
(* `last` holds an exchange from the handler's return (the end of the CLI's *)
(* try statement) to this step.  The step changes nothing any other step    *)
(* reads, so every other step waits for it: letting them run first would    *)
(* reach the same tables, files and tasks.                                  *)

Respond ==
    /\ last # NoExchange
    /\ last' = NoExchange
    /\ UNCHANGED <<Requests, hist, tmp, tasks>>
    /\ UNCHANGED gui

----------------------------------------------------------------------------
(* _process_pipeline_background: one step per database call.  The task runs *)
(* in the server's thread pool, so its steps interleave with the handlers   *)
(* and with the other tasks.  The extraction and the removal of the task's  *)
(* own staging file touch nothing shared: each is part of the step of the   *)
(* database call next to it.                                                *)

PipelineProvider == "openai"

SetTask(t, task) == [tasks EXCEPT ![t] = task]

\* finally: if tmp_path and os.path.exists(tmp_path): os.remove(tmp_path)
Finally(files, tmp_path) ==
    IF IsSome(tmp_path) /\ files[tmp_path[1].id].exists
    THEN [files EXCEPT ![tmp_path[1].id].exists = FALSE, ![tmp_path[1].id].ended = TRUE]
    ELSE IF IsSome(tmp_path)
    THEN [files EXCEPT ![tmp_path[1].id].ended = TRUE]
    ELSE files

\* The first step skipping the extraction of a task that has a file.
BgUpdate2NoExtraction(t, o) ==
    /\ last = NoExchange
    /\ tasks[t].pc = "update2"
    /\ Requests' = UpdateStatusRows(Requests, tasks[t].recid, StatusProcessing, o)
    /\ hist' = UpdateStatusHist(hist, tasks[t].recid, StatusProcessing, o)
    /\ tasks' = SetTask(t, [tasks[t] EXCEPT !.pc = IF Raised(o) THEN "except" ELSE "update4"])
    /\ UNCHANGED <<tmp, last>>
    /\ UNCHANGED gui

\* update_status(recid, 2)
BgUpdate2(t, o) ==
    /\ last = NoExchange
    /\ tasks[t].pc = "update2"
    /\ Requests' = UpdateStatusRows(Requests, tasks[t].recid, StatusProcessing, o)
    /\ hist' = UpdateStatusHist(hist, tasks[t].recid, StatusProcessing, o)
    /\ tasks' = SetTask(t, [tasks[t] EXCEPT
                   !.pc = IF Raised(o) THEN "except"
                          ELSE IF IsSome(tasks[t].tmp_path) THEN "extract" ELSE "update4"])
    /\ UNCHANGED <<tmp, last>>
    /\ UNCHANGED gui

\* result = extract_data_from_file(tmp_path, model="gpt-3.5-turbo", provider="openai")
\* save_extraction_results(recid, result["text"], result["data"])
BgExtractAndSave(t, ocr, llm, o) ==
    LET res == ExtractDataFromFile(PipelineProvider, ocr, llm)
        recid == tasks[t].recid
        histX == [hist EXCEPT ![recid] = Append(@, Event("extract", IF res.ok THEN 1 ELSE 0))]
    IN
    /\ last = NoExchange
    /\ tasks[t].pc = "extract"
    /\ Requests' = IF res.ok
                   THEN SaveExtractionRows(Requests, recid, res.val.text, res.val.data, o)
                   ELSE Requests
    /\ hist' = IF res.ok THEN SaveExtractionHist(histX, recid, o) ELSE histX
    /\ tasks' = SetTask(t, [tasks[t] EXCEPT
                   !.pc = IF res.ok /\ ~Raised(o) THEN "update4" ELSE "except"])
    /\ UNCHANGED <<tmp, last>>
    /\ UNCHANGED gui

\* update_status(recid, 4), then the finally clause when it returned
BgUpdate4(t, o) ==
    /\ last = NoExchange
    /\ tasks[t].pc = "update4"
    /\ Requests' = UpdateStatusRows(Requests, tasks[t].recid, StatusDone, o)
    /\ hist' = UpdateStatusHist(hist, tasks[t].recid, StatusDone, o)
    /\ tasks' = SetTask(t, [tasks[t] EXCEPT !.pc = IF Raised(o) THEN "except" ELSE "done"])
    /\ tmp' = IF Raised(o) THEN tmp ELSE Finally(tmp, tasks[t].tmp_path)
    /\ UNCHANGED last
    /\ UNCHANGED gui

\* except Exception: update_status(recid, 98), then the finally clause whether
\* or not that call raised
BgExcept(t, o) ==
    /\ last = NoExchange
    /\ tasks[t].pc = "except"
    /\ Requests' = UpdateStatusRows(Requests, tasks[t].recid, StatusPipelineError, o)
    /\ hist' = UpdateStatusHist(hist, tasks[t].recid, StatusPipelineError, o)
    /\ tasks' = SetTask(t, [tasks[t] EXCEPT !.pc = "done", !.failed = TRUE])
    /\ tmp' = Finally(tmp, tasks[t].tmp_path)
    /\ UNCHANGED last
    /\ UNCHANGED gui

----------------------------------------------------------------------------
(* main.py: pipeline mode (--pipeline-file / --pipeline-prompt) and         *)
(* positional mode.  A run is one blocking call chain on a row of its own.  *)

CliFiles == {None, Some(UserPath(<<"/", "d", "/", "a", ".", "p", "d", "f">>))}
CliPrompts == {None, Some(<<"p">>)}

RECURSIVE Basename(_)
\* os.path.basename: what follows the last "/"
Basename(path) ==
    IF \E i \in 1..Len(path) : path[i] = "/"
    THEN Basename(Tail(path))
    ELSE path

\* One run of pipeline mode, from record_data to exit.  The try block stops at
\* the first call that raises; except Exception only logs.
CliPipeline(file, prompt, o1, o2, ocr, llm, o3, o4) ==
    LET recid == NextRecId
        res == ExtractDataFromFile(PipelineProvider, ocr, llm)
        \* recid, status = record_data(file, basename(file) if file else None, prompt)
        rows1 == RecordDataRows(Requests, file,
                     IF IsSome(file) THEN Some(Basename(file[1].name)) ELSE None, prompt, o1)
        hist1 == RecordDataHist(hist, o1)
        \* update_status(recid, 2)
        at2 == ~Raised(o1)
        rows2 == IF at2 THEN UpdateStatusRows(rows1, recid, StatusProcessing, o2) ELSE rows1
        hist2 == IF at2 THEN UpdateStatusHist(hist1, recid, StatusProcessing, o2) ELSE hist1
        \* if args.pipeline_file: result = extract_data_from_file(...)
        atX == at2 /\ ~Raised(o2) /\ IsSome(file)
        histX == IF atX
                 THEN [hist2 EXCEPT ![recid] = Append(@, Event("extract", IF res.ok THEN 1 ELSE 0))]
                 ELSE hist2
        \* save_extraction_results(recid, result["text"], result["data"])
        atS == atX /\ res.ok
        rows3 == IF atS THEN SaveExtractionRows(rows2, recid, res.val.text, res.val.data, o3)
                 ELSE rows2
        hist3 == IF atS THEN SaveExtractionHist(histX, recid, o3) ELSE histX
        \* update_status(recid, 4)
        at4 == at2 /\ ~Raised(o2) /\ (IsSome(file) => atS /\ ~Raised(o3))
        rows4 == IF at4 THEN UpdateStatusRows(rows3, recid, StatusDone, o4) ELSE rows3
        hist4 == IF at4 THEN UpdateStatusHist(hist3, recid, StatusDone, o4) ELSE hist3
    IN
    /\ last = NoExchange
    /\ Len(Requests) < MaxRec
    \* if args.pipeline_file or args.pipeline_prompt
    /\ IsSome(file) \/ Truthy(prompt)
    /\ Requests' = rows4
    /\ hist' = hist4
    /\ last' = [op |-> "cli-pipeline", file |-> file,
                recid |-> IF Raised(o1) THEN 0 ELSE recid,
                inserted |-> IF Committed(o1) THEN recid ELSE 0,
                failed |-> ~(at4 /\ ~Raised(o4))]
    /\ UNCHANGED <<tmp, tasks>>
    /\ UNCHANGED gui

\* positional mode: record_data(args.pdf_path, args.original_filename, args.user_prompt)
CliPositional(file, original_filename, prompt, o) ==
    /\ last = NoExchange
    /\ Len(Requests) < MaxRec
    \* elif args.pdf_path
    /\ IsSome(file)
    /\ Requests' = RecordDataRows(Requests, file, original_filename, prompt, o)
    /\ hist' = RecordDataHist(hist, o)
    /\ last' = [op |-> "cli-positional", file |-> file,
                original_filename |-> original_filename,
                recid |-> IF Raised(o) THEN 0 ELSE NextRecId,
                inserted |-> IF Committed(o) THEN NextRecId ELSE 0,
                failed |-> Raised(o)]
    /\ UNCHANGED <<tmp, tasks>>
    /\ UNCHANGED gui

----------------------------------------------------------------------------

(* The processing lifecycle: Run Pipeline, its background tasks and the    *)
(* CLI pipeline mode, interleaved on the shared database.                   *)

FormType == "multipart/form-data; boundary=b"
JsonType == "application/json"

SomeRequests ==
    { [ct |-> FormType, body |-> "form", file |-> Some(APdf), user_prompt |-> Some(<<"p">>)],
      [ct |-> JsonType, body |-> "object", file |-> None, user_prompt |-> Some(<<"p">>)] }
SomeOcr == {"ok", "ocr_failed"}
SomeLlm == {"valid_json", "call_failed"}

\* The outcomes of the calls one CLI pipeline run makes: a call after the
\* first that raised is not made.
CliPipelineRun(f, p, Ocr, Llm) ==
    \E o1 \in DbOutcome :
    \E o2 \in IF Raised(o1) THEN {"ok"} ELSE DbOutcome :
    \E ocr \in IF Raised(o2) \/ ~IsSome(f) THEN {"ok"} ELSE Ocr :
    \E llm \in IF Raised(o2) \/ ~IsSome(f) \/ ocr # "ok" THEN {"valid_json"} ELSE Llm :
    \E o3 \in IF Raised(o2) \/ ~IsSome(f) \/ ocr # "ok" \/ llm = "call_failed"
              THEN {"ok"} ELSE DbOutcome :
    \E o4 \in IF Raised(o2) \/ Raised(o3) THEN {"ok"} ELSE DbOutcome :
        CliPipeline(f, p, o1, o2, ocr, llm, o3, o4)

Next ==
    \/ \E req \in SomeRequests, o \in DbOutcome : RunPipeline(req, o)
    \/ Respond
    \/ \E t \in DOMAIN tasks, o \in DbOutcome : BgUpdate2(t, o)
    \/ \E t \in DOMAIN tasks, ocr \in SomeOcr, llm \in SomeLlm, o \in DbOutcome :
          BgExtractAndSave(t, ocr, llm, o)
    \/ \E t \in DOMAIN tasks, o \in DbOutcome : BgUpdate4(t, o)
    \/ \E t \in DOMAIN tasks, o \in DbOutcome : BgExcept(t, o)
    \/ \E f \in CliFiles : CliPipelineRun(f, Some(<<"p">>), SomeOcr, SomeLlm)

Spec == Init /\ [][Next]_vars

(* Run Pipeline and its background tasks alone, every table row being one of *)
(* a submission.  The thread pool runs every step of a task that is ready,   *)
(* each database and extraction call returns or raises, and the response of  *)
(* an exchange is sent.                                                       *)

NextPipe ==
    \/ \E req \in SomeRequests, o \in DbOutcome : RunPipeline(req, o)
    \/ Respond
    \/ \E t \in DOMAIN tasks, o \in DbOutcome : BgUpdate2(t, o)
    \/ \E t \in DOMAIN tasks, ocr \in SomeOcr, llm \in SomeLlm, o \in DbOutcome :
          BgExtractAndSave(t, ocr, llm, o)
    \/ \E t \in DOMAIN tasks, o \in DbOutcome : BgUpdate4(t, o)
    \/ \E t \in DOMAIN tasks, o \in DbOutcome : BgExcept(t, o)

SpecPipe ==
    /\ Init
    /\ [][NextPipe]_vars
    /\ WF_vars(Respond)
    /\ \A t \in 1..MaxRec :
          /\ WF_vars(\E o \in DbOutcome : BgUpdate2(t, o))
          /\ WF_vars(\E ocr \in SomeOcr, llm \in SomeLlm, o \in DbOutcome :
                        BgExtractAndSave(t, ocr, llm, o))
          /\ WF_vars(\E o \in DbOutcome : BgUpdate4(t, o))
          /\ WF_vars(\E o \in DbOutcome : BgExcept(t, o))

(* The request handlers over every input.  Tasks are queued, not run.       *)

NextApi ==
    \/ \E f \in FileNames, o \in DbOutcome : UploadPdf(f, o)
    \/ \E r \in 1..(MaxRec + 1), o \in DbOutcome : GetStatus(r, o)
    \/ \E p \in Providers, ocr \in OcrOutcome, llm \in LlmOutcome : ExtractData(p, ocr, llm)
    \/ \E req \in PipelineRequests, o \in DbOutcome : RunPipeline(req, o)
    \/ Respond

SpecApi == Init /\ [][NextApi]_vars

(* The CLI alone, over every input.                                         *)

NextCli ==
    \/ \E f \in CliFiles, p \in CliPrompts : CliPipelineRun(f, p, OcrOutcome, LlmOutcome)
    \/ \E f \in CliFiles, n \in {None, Some(<<"o", ".", "p", "d", "f">>)}, p \in CliPrompts,
          o \in DbOutcome : CliPositional(f, n, p, o)
    \/ Respond

SpecCli == Init /\ [][NextCli]_vars

----------------------------------------------------------------------------
(* Verify Document (document_check.py): one customer lookup and one article *)
(* lookup per distinct code against the ERP.  The handler shares no state   *)
(* with the other operations; its answer and the requests it posted are     *)
(* held in `last` until the response is sent.                               *)

MaxRighe == 3

ArticleCodes == {"A1", "B2"}

\* What one POST to the ERP comes to: rows, no rows, a non-2xx status
\* (raise_for_status) or a transport error.
ErpOutcome == {"found", "empty", "status_error", "network_error"}

\* The customer row returned may lack the "Code" key: data[0].get("Code").
CustomerOutcome == ErpOutcome \cup {"found_no_code"}

\* doc.data.righe, by the codice_articolo of each line item
Documents == UNION {[1..n -> ArticleCodes] : n \in 0..MaxRighe}

Range(q) == {q[i] : i \in DOMAIN q}

\* list(s) of a set s: its elements once each, in an order the set decides
Listings(S) ==
    {q \in [1..Cardinality(S) -> S] : \A i, j \in DOMAIN q : i # j => q[i] # q[j]}

\* cerca_cliente: the Code of the first row, None on no row or on any exception
CercaCliente(o) == IF o = "found" THEN Some("C001") ELSE None

\* articoli_esistenti giving up at the first lookup that raises.
RECURSIVE ArticoliEsistentiStopAtError(_, _)
ArticoliEsistentiStopAtError(codici, erp) ==
    IF codici = <<>>
    THEN [trovati |-> <<>>, posts |-> <<>>]
    ELSE LET code == Head(codici) IN
         IF erp[code] \in {"status_error", "network_error"}
         THEN [trovati |-> <<>>, posts |-> <<code>>]
         ELSE LET rest == ArticoliEsistentiStopAtError(Tail(codici), erp) IN
              [trovati |-> (IF erp[code] = "found" THEN <<code>> ELSE <<>>) \o rest.trovati,
               posts |-> <<code>> \o rest.posts]

\* articoli_esistenti: one POST per element of codici, in order; a code is
\* appended to trovati when its lookup returned rows; an exception is logged.
RECURSIVE ArticoliEsistenti(_, _)
ArticoliEsistenti(codici, erp) ==
    IF codici = <<>>
    THEN [trovati |-> <<>>, posts |-> <<>>]
    ELSE LET code == Head(codici)
             rest == ArticoliEsistenti(Tail(codici), erp) IN
         [trovati |-> (IF erp[code] = "found" THEN <<code>> ELSE <<>>) \o rest.trovati,
          posts |-> <<code>> \o rest.posts]

\* The list of codes queried with one entry per line item.
CodiciArticoloPerRiga(righe) == {righe}

\* codici_articolo = list({r.codice_articolo for r in doc.data.righe})
CodiciArticolo(righe) == Listings(Range(righe))

\* POST /verifica-documento
VerificaDocumento(righe, cust, erp) ==
    LET codice_cliente == CercaCliente(cust) IN
    /\ last = NoExchange
    /\ \E codici_articolo \in CodiciArticolo(righe) :
          LET a == ArticoliEsistenti(codici_articolo, erp) IN
          \* articoli_mancanti = list(set(codici_articolo) - set(articoli_trovati))
          \E articoli_mancanti \in Listings(Range(codici_articolo) \ Range(a.trovati)) :
              last' = [op |-> "verify", code |-> 200, righe |-> righe, cust |-> cust,
                       erp |-> erp, customer_posts |-> 1, posts |-> a.posts,
                       cliente |-> IsSome(codice_cliente),
                       codice_cliente |-> codice_cliente,
                       articoli_trovati |-> a.trovati,
                       articoli_mancanti |-> articoli_mancanti]
    /\ UNCHANGED <<Requests, hist, tmp, tasks>>
    /\ UNCHANGED gui

NextVerify ==
    \/ /\ last = NoExchange
       /\ \E righe \in Documents, cust \in CustomerOutcome, erp \in [ArticleCodes -> ErpOutcome] :
             VerificaDocumento(righe, cust, erp)
    \/ Respond

SpecVerify == Init /\ [][NextVerify]_vars

----------------------------------------------------------------------------
(* Document-AI result normalizer (gdocai.rimappa_json with the helpers of   *)
(* rimappa_utils.py).  Texts are sequences of characters; a number is the   *)
(* exact ratio n/d in lowest terms with d > 0, which is what float() gives  *)
(* for the decimal numerals of the inputs; an optional number is None or    *)
(* Some(n/d).  A cell is the text its segments select from the document.    *)

Chars(s) == [i \in 1..Len(s) |-> SubSeq(s, i, i)]

RECURSIVE GCD(_, _)
GCD(a, b) == IF b = 0 THEN a ELSE GCD(b, a % b)

Abs(x) == IF x < 0 THEN -x ELSE x

Rat(n, d) == LET g == GCD(Abs(n), d) IN [n |-> n \div g, d |-> d \div g]

Zero == Rat(0, 1)

\* a / b for b # 0
RatDiv(a, b) ==
    IF b.n > 0 THEN Rat(a.n * b.d, a.d * b.n) ELSE Rat(-(a.n * b.d), a.d * (-b.n))

\* abs(a - b) < 1e-6
RatClose(a, b) == Abs(a.n * b.d - b.n * a.d) * 1000000 < a.d * b.d

IsDigit(c) == c \in {"0", "1", "2", "3", "4", "5", "6", "7", "8", "9"}

DigitVal(c) ==
    CASE c = "0" -> 0 [] c = "1" -> 1 [] c = "2" -> 2 [] c = "3" -> 3 [] c = "4" -> 4
      [] c = "5" -> 5 [] c = "6" -> 6 [] c = "7" -> 7 [] c = "8" -> 8 [] c = "9" -> 9

RECURSIVE DigitsVal(_)
DigitsVal(s) ==
    IF s = <<>> THEN 0
    ELSE DigitsVal(SubSeq(s, 1, Len(s) - 1)) * 10 + DigitVal(s[Len(s)])

RECURSIVE Pow10(_)
Pow10(k) == IF k = 0 THEN 1 ELSE 10 * Pow10(k - 1)

\* float(s) for decimal numerals: blanks around, an optional sign, digits with
\* at most one "."; anything else is a ValueError (None here).
Float(s) ==
    LET t == Strip(s)
        signed == t # <<>> /\ t[1] \in {"-", "+"}
        body == IF signed THEN Tail(t) ELSE t
        dots == {i \in DOMAIN body : body[i] = "."}
        digits == SelectSeq(body, IsDigit)
    IN
    IF \/ Cardinality(dots) > 1
       \/ digits = <<>>
       \/ \E i \in DOMAIN body : ~IsDigit(body[i]) /\ body[i] # "."
    THEN None
    ELSE LET frac == IF dots = {} THEN 0 ELSE Len(body) - (CHOOSE i \in dots : TRUE)
             v == DigitsVal(digits) IN
         Some(Rat(IF t[1] = "-" THEN -v ELSE v, Pow10(frac)))

\* str.replace(old, new) for one-character old; new is a text
RECURSIVE Replace(_, _, _)
Replace(s, old, new) ==
    IF s = <<>> THEN <<>>
    ELSE (IF s[1] = old THEN new ELSE <<s[1]>>) \o Replace(Tail(s), old, new)

\* _parse_number: "" gives None; "." is dropped, "," becomes ".", then float()
ParseNumber(value_str) ==
    IF value_str = <<>> THEN None
    ELSE Float(Replace(Replace(value_str, ".", <<>>), ",", <<".">>))

\* _cell_text: the text of the cell's segments, stripped
CellText(cell) == Strip(cell)

\* sub in s
Contains(s, sub) ==
    \E i \in 1..(Len(s) - Len(sub) + 1) : SubSeq(s, i, i + Len(sub) - 1) = sub

\* The position of the first header cell containing the name.
HeaderIndexContaining(header, name) ==
    IF \E i \in DOMAIN header : Contains(header[i], name)
    THEN CHOOSE i \in DOMAIN header :
            /\ Contains(header[i], name)
            /\ \A j \in 1..(i - 1) : ~Contains(header[j], name)
    ELSE 0

\* header.index(name), counted from 1; 0 when name is not in header
HeaderIndex(header, name) ==
    IF \E i \in DOMAIN header : header[i] = name
    THEN CHOOSE i \in DOMAIN header :
            /\ header[i] = name
            /\ \A j \in 1..(i - 1) : header[j] # name
    ELSE 0

\* The cell at a column, parsed; None when the column or the cell is missing.
ColumnNumber(cells, idx) ==
    IF idx # 0 /\ idx <= Len(cells) THEN ParseNumber(CellText(cells[idx])) ELSE None

\* The unit price taken to be the total of the row.
UnitPriceIsTotal(price_unit, price_tot, qty) ==
    IF ~IsSome(price_unit) /\ IsSome(price_tot) THEN price_tot ELSE price_unit

\* if price_unit is None and price_tot is not None and qty != 0:
\*     price_unit = price_tot / qty
UnitPrice(price_unit, price_tot, qty) ==
    IF ~IsSome(price_unit) /\ IsSome(price_tot) /\ qty.n # 0
    THEN Some(RatDiv(price_tot[1], qty))
    ELSE price_unit

\* The rows one table adds to prod_rows.  `table` and `row` say where a row
\* came from; the code reads neither.
RECURSIVE BodyProdRows(_, _, _, _, _, _, _)
BodyProdRows(body_rows, r, idx_cod, idx_quant, idx_price_unit, idx_price_tot, t) ==
    IF r > Len(body_rows) THEN <<>>
    ELSE LET cells == body_rows[r]
             rest == BodyProdRows(body_rows, r + 1, idx_cod, idx_quant,
                                  idx_price_unit, idx_price_tot, t) IN
         IF idx_cod > Len(cells) \/ idx_quant > Len(cells) THEN rest
         ELSE LET code == CellText(cells[idx_cod])
                  qty == ParseNumber(CellText(cells[idx_quant])) IN
              IF code # <<>> /\ IsSome(qty)
              THEN <<[codice_articolo |-> code,
                      quantita |-> qty[1],
                      prezzo |-> UnitPrice(ColumnNumber(cells, idx_price_unit),
                                           ColumnNumber(cells, idx_price_tot), qty[1]),
                      table |-> t, row |-> r]>> \o rest
              ELSE rest

TableProdRows(table, t) ==
    IF table.header_rows = <<>> THEN <<>>
    ELSE LET first_header_row == table.header_rows[1]
             header == [i \in DOMAIN first_header_row |->
                           Lower(CellText(first_header_row[i]))]
             idx_cod == HeaderIndex(header, Chars("codice articolo"))
             idx_quant == HeaderIndex(header, Chars("quantita'"))
             idx_price_unit == HeaderIndex(header, Chars("prezzo unitario"))
             idx_price_tot == HeaderIndex(header, Chars("prezzo totale")) IN
         IF idx_cod = 0 THEN <<>>
         ELSE IF idx_quant = 0 THEN <<>>
         ELSE BodyProdRows(table.body_rows, 1, idx_cod, idx_quant,
                           idx_price_unit, idx_price_tot, t)

\* for page in pages: for table in tables: the tables of the document in order
RECURSIVE Tables(_)
Tables(pages) == IF pages = <<>> THEN <<>> ELSE Head(pages).tables \o Tables(Tail(pages))

RECURSIVE ProdRowsFrom(_, _)
ProdRowsFrom(tables, t) ==
    IF t > Len(tables) THEN <<>>
    ELSE TableProdRows(tables[t], t) \o ProdRowsFrom(tables, t + 1)

ProdRows(doc) == ProdRowsFrom(Tables(doc.pages), 1)

\* price_map[code]: the price of the first row of that code that has one
PriceMap(prod_rows, code) ==
    LET priced == {i \in DOMAIN prod_rows :
                      IsSome(prod_rows[i].prezzo) /\ prod_rows[i].codice_articolo = code} IN
    IF priced = {} THEN None
    ELSE prod_rows[CHOOSE i \in priced : \A j \in priced : i <= j].prezzo

RemoveAt(q, i) == SubSeq(q, 1, i - 1) \o SubSeq(q, i + 1, Len(q))

\* match_price: the price of the row popped from prod_remaining, and what remains
MatchPrice(prod_remaining, code, qty) ==
    LET same == {i \in DOMAIN prod_remaining : prod_remaining[i].codice_articolo = code}
        exact == IF IsSome(qty)
                 THEN {i \in same : RatClose(prod_remaining[i].quantita, qty[1])}
                 ELSE {}
        from == IF exact # {} THEN exact ELSE same IN
    IF code = <<>> \/ from = {}
    THEN [price |-> None, prod_remaining |-> prod_remaining]
    ELSE LET i == CHOOSE i \in from : \A j \in from : i <= j IN
         [price |-> prod_remaining[i].prezzo, prod_remaining |-> RemoveAt(prod_remaining, i)]

\* An attribute of a document object, or a key of a mapping: absent, present
\* with a null value, or present with a text.
Absent == [kind |-> "absent", text |-> <<>>]
Null == [kind |-> "null", text |-> <<>>]
Text(s) == [kind |-> "text", text |-> Chars(s)]

\* _getattr(obj, attr, default): the default only when the attribute is absent.
GetAttr(field, default) == IF field.kind = "absent" THEN default ELSE field

\* Python truth of an attribute value: None and "" are false.
FieldTruthy(field) == field.kind = "text" /\ field.text # <<>>

\* (_getattr(obj, "type_", None) or _getattr(obj, "type", "")).lower():
\* Some(text) when it returns, None when .lower() is applied to a null and
\* raises AttributeError.
GetType(obj) ==
    LET a == GetAttr(obj.type_, Null)
        b == IF FieldTruthy(a) THEN a ELSE GetAttr(obj.type, Text("")) IN
    IF b.kind = "text" THEN Some(Lower(b.text)) ELSE None

GetEntityType(entity) == GetType(entity)

GetPropertyType(prop) == GetType(prop)

\* props.get(key): the mention of the last property of that type, or None
PropsGet(properties, key) ==
    LET at == {i \in DOMAIN properties : Lower(GetPropertyType(properties[i])[1]) = key} IN
    IF at = {} THEN None
    ELSE Some(Strip(properties[CHOOSE i \in at : \A j \in at : i >= j].mention))

\* props.get(key, "")
PropsGetText(properties, key) ==
    LET v == PropsGet(properties, key) IN IF IsSome(v) THEN v[1] ELSE <<>>

\* The line items built from the "riga" entities, n of them built so far.
RECURSIVE Righe(_, _, _, _)
Righe(entities, prod_remaining, prod_rows, n) ==
    IF entities = <<>> THEN <<>>
    ELSE LET ent == Head(entities) IN
         IF Lower(GetEntityType(ent)[1]) # Chars("riga")
         THEN Righe(Tail(entities), prod_remaining, prod_rows, n)
         ELSE LET code == PropsGetText(ent.properties, Chars("codice_articolo"))
                  q1 == PropsGet(ent.properties, Chars("quantita"))
                  \* props.get("quantita") or props.get("quantità")
                  qty_str == IF Truthy(q1) THEN q1
                             ELSE PropsGet(ent.properties, Chars("quantità"))
                  qty == IF Truthy(qty_str) THEN ParseNumber(qty_str[1]) ELSE None
                  m == MatchPrice(prod_remaining, code, qty)
                  price == IF IsSome(m.price) THEN m.price ELSE PriceMap(prod_rows, code) IN
              <<[progressivo_riga |-> Str(n + 1),
                 riferimento |-> PropsGetText(ent.properties, Chars("riferimento")),
                 codice_articolo |-> code,
                 descrizione |-> PropsGetText(ent.properties, Chars("descrizione")),
                 quantita |-> IF IsSome(qty) THEN qty[1] ELSE Zero,
                 prezzo |-> IF IsSome(price) THEN price[1] ELSE Zero]>>
              \o Righe(Tail(entities), m.prod_remaining, prod_rows, n + 1)

\* The header fields: for each entity in order, the first of "fornitore",
\* "numero", "data" its type contains names the field its mention is stored in.
RECURSIVE HeaderFields(_, _)
HeaderFields(entities, risultato) ==
    IF entities = <<>> THEN risultato
    ELSE LET ent == Head(entities)
             etype == Lower(GetEntityType(ent)[1])
             evalue == Strip(ent.mention) IN
         HeaderFields(Tail(entities),
             IF Contains(etype, Chars("fornitore"))
             THEN [risultato EXCEPT !.fornitore = evalue]
             ELSE IF Contains(etype, Chars("numero"))
             THEN [risultato EXCEPT !.numero_documento = evalue]
             ELSE IF Contains(etype, Chars("data"))
             THEN [risultato EXCEPT !.data_documento = evalue]
             ELSE risultato)

RimappaJsonResult(doc) ==
    LET prod_rows == ProdRows(doc)
        head == HeaderFields(doc.entities,
                    [fornitore |-> <<>>, numero_documento |-> <<>>, data_documento |-> <<>>]) IN
    [fornitore |-> head.fornitore,
     numero_documento |-> head.numero_documento,
     data_documento |-> head.data_documento,
     riga |-> Righe(doc.entities, prod_rows, prod_rows, 0)]

\* Documents: tables and entities of a Document AI result.

MaxTables == 2
MaxEntities == 2

Row(texts) == [i \in DOMAIN texts |-> Chars(texts[i])]

Table(header_rows, body_rows) == [header_rows |-> header_rows, body_rows |-> body_rows]

HeadTot == Row(<<"codice articolo", "quantita'", "prezzo totale">>)
HeadAll == Row(<<"Codice Articolo", " Quantita' ", "Prezzo Unitario", "Prezzo Totale">>)
HeadUnit == Row(<<"codice articolo", "quantita'", "prezzo unitario">>)
HeadNoCode == Row(<<"codice", "quantita'", "prezzo totale">>)
HeadLongCode == Row(<<"rif. codice articolo", "quantita'", "prezzo totale">>)
HeadNoQuant == Row(<<"codice articolo", "quantità", "prezzo totale">>)

SomeTables ==
    { Table(<<HeadTot>>, <<Row(<<"A1", "5", "50">>), Row(<<"A1", "0", "50">>),
                           Row(<<"B2", "2,5", "1.000">>), Row(<<"A1">>),
                           Row(<<"", "5", "50">>), Row(<<"A1", "x", "50">>),
                           Row(<<"B2", "2">>)>>),
      Table(<<HeadAll>>, <<Row(<<"A1", "5", "3", "50">>), Row(<<"B2", "2", "n.d.", "7">>)>>),
      Table(<<HeadUnit, HeadTot>>, <<Row(<<"A1", "5", "4">>), Row(<<"A1", "2", "6">>)>>),
      Table(<<HeadNoCode>>, <<Row(<<"A1", "5", "50">>)>>),
      Table(<<HeadLongCode>>, <<Row(<<"A1", "5", "50">>)>>),
      Table(<<HeadNoQuant>>, <<Row(<<"A1", "5", "50">>)>>),
      Table(<<>>, <<Row(<<"A1", "5", "50">>)>>) }

\* Typed-object form: the attribute is type_, and there is no attribute type.
Property(type, mention) ==
    [type_ |-> Text(type), type |-> Absent, mention |-> Chars(mention)]

Entity(type, mention, properties) ==
    [type_ |-> Text(type), type |-> Absent,
     mention |-> Chars(mention), properties |-> properties]

\* Plain-mapping form: the key is "type", absent, null or a text.
MappingProperty(type, mention) ==
    [type_ |-> Absent, type |-> type, mention |-> Chars(mention)]

MappingEntity(type, mention, properties) ==
    [type_ |-> Absent, type |-> type,
     mention |-> Chars(mention), properties |-> properties]

SomeEntities ==
    { Entity("riga", "", <<Property("codice_articolo", "A1"), Property("quantita", "5")>>),
      Entity("Riga", "", <<Property("Codice_Articolo", " A1 "), Property("quantità", "2"),
                           Property("descrizione", "vite")>>),
      Entity("riga", "", <<Property("codice_articolo", "B2")>>),
      Entity("fornitore", " ACME ", <<>>) }

SeqsUpTo(S, n) == UNION {[1..k -> S] : k \in 0..n}

\* A first page without tables, the first two tables on the second page and
\* each later table on a page of its own.
Pages(tables) ==
    <<[tables |-> <<>>],
      [tables |-> [i \in 1..(IF Len(tables) < 2 THEN Len(tables) ELSE 2) |-> tables[i]]]>>
        \o [i \in 1..(Len(tables) - 2) |-> [tables |-> <<tables[i + 2]>>]]

NormDocuments ==
    {[entities |-> es, pages |-> ps] :
        es \in SeqsUpTo(SomeEntities, MaxEntities),
        ps \in {Pages(ts) : ts \in SeqsUpTo(SomeTables, MaxTables)}}

\* The header loop takes the type of every entity, the line-item loop the
\* type of every property of a "riga" entity: a null type raises there.
TypeRaises(doc) ==
    \E i \in DOMAIN doc.entities :
        LET ent == doc.entities[i] IN
        \/ GetEntityType(ent) = None
        \/ /\ GetEntityType(ent) = Some(Chars("riga"))
           /\ \E k \in DOMAIN ent.properties : GetPropertyType(ent.properties[k]) = None

NoResult ==
    [fornitore |-> <<>>, numero_documento |-> <<>>, data_documento |-> <<>>, riga |-> <<>>]

\* dati_trasformati = rimappa_json(document_proto)
RimappaJson(doc) ==
    /\ last = NoExchange
    /\ last' = IF TypeRaises(doc)
               THEN [op |-> "rimappa", code |-> 0, doc |-> doc, raised |-> "AttributeError",
                     prod_rows |-> <<>>, risultato |-> NoResult]
               ELSE [op |-> "rimappa", code |-> 0, doc |-> doc, raised |-> "",
                     prod_rows |-> ProdRows(doc), risultato |-> RimappaJsonResult(doc)]
    /\ UNCHANGED <<Requests, hist, tmp, tasks>>
    /\ UNCHANGED gui

\* The normalizer starts only between exchanges: no document is tried before.
NextNorm ==
    \/ /\ last = NoExchange
       /\ \E doc \in NormDocuments : RimappaJson(doc)
    \/ Respond

SpecNorm == Init /\ [][NextNorm]_vars

\* Documents in both forms, with absent and null types, over two small tables.
FormEntities ==
    { Entity("riga", "", <<Property("codice_articolo", "A1"), Property("quantita", "5")>>),
      MappingEntity(Text("riga"), "", <<MappingProperty(Text("codice_articolo"), "A1"),
                                        MappingProperty(Text("quantita"), "x")>>),
      MappingEntity(Text("riga"), "", <<MappingProperty(Null, "A1")>>),
      MappingEntity(Text("riga"), "", <<MappingProperty(Absent, "A1")>>),
      MappingEntity(Absent, "x", <<>>),
      MappingEntity(Null, "x", <<>>) }

FormTables ==
    { Table(<<HeadTot>>, <<Row(<<"A1", "5", "50">>)>>),
      Table(<<>>, <<>>) }

FormDocuments ==
    {[entities |-> es, pages |-> ps] :
        es \in SeqsUpTo(FormEntities, MaxEntities),
        ps \in {Pages(ts) : ts \in SeqsUpTo(FormTables, MaxTables)}}

NextForms ==
    \/ /\ last = NoExchange
       /\ \E doc \in FormDocuments : RimappaJson(doc)
    \/ Respond

SpecForms == Init /\ [][NextForms]_vars

----------------------------------------------------------------------------
(* Price matching on one table whose rows share a code *)

MaxBodyRows == 3

\* Rows of code A1: quantity 0 (no unit price can be derived from the total),
\* quantity 5 at 10 each, quantity 2 at 25 each.
PriceRows == { Row(<<"A1", "0", "50">>), Row(<<"A1", "5", "50">>), Row(<<"A1", "2", "50">>) }

PriceEntities ==
    { Entity("riga", "", <<Property("codice_articolo", "A1"), Property("quantita", "0")>>),
      Entity("riga", "", <<Property("codice_articolo", "A1"), Property("quantita", "5")>>),
      Entity("riga", "", <<Property("codice_articolo", "A1"), Property("quantita", "2")>>),
      Entity("riga", "", <<Property("quantita", "5")>>) }

PriceDocuments ==
    {[entities |-> es, pages |-> <<[tables |-> <<Table(<<HeadTot>>, rows)>>]>>] :
        es \in SeqsUpTo(PriceEntities, MaxEntities),
        rows \in SeqsUpTo(PriceRows, MaxBodyRows)}

\* What the line-item loop does for each "riga" entity in turn: its code and
\* quantity, prod_remaining before and after match_price, what match_price
\* returned and the price stored.
RECURSIVE PriceTrace(_, _, _)
PriceTrace(entities, prod_remaining, prod_rows) ==
    IF entities = <<>> THEN <<>>
    ELSE LET ent == Head(entities) IN
         IF Lower(GetEntityType(ent)[1]) # Chars("riga")
         THEN PriceTrace(Tail(entities), prod_remaining, prod_rows)
         ELSE LET code == PropsGetText(ent.properties, Chars("codice_articolo"))
                  q1 == PropsGet(ent.properties, Chars("quantita"))
                  qty_str == IF Truthy(q1) THEN q1
                             ELSE PropsGet(ent.properties, Chars("quantità"))
                  qty == IF Truthy(qty_str) THEN ParseNumber(qty_str[1]) ELSE None
                  m == MatchPrice(prod_remaining, code, qty)
                  price == IF IsSome(m.price) THEN m.price ELSE PriceMap(prod_rows, code) IN
              <<[codice_articolo |-> code, qty |-> qty,
                 before |-> prod_remaining, after |-> m.prod_remaining,
                 matched |-> m.price,
                 prezzo |-> IF IsSome(price) THEN price[1] ELSE Zero]>>
              \o PriceTrace(Tail(entities), m.prod_remaining, prod_rows)

NextPrices ==
    \/ /\ last = NoExchange
       /\ \E doc \in PriceDocuments : RimappaJson(doc)
    \/ Respond

SpecPrices == Init /\ [][NextPrices]_vars

----------------------------------------------------------------------------
(* glocal_ai_confronto.rimappa_document_ai: the comparison tool's own copy of *)
(* the normalizer, translated from its own text.  It calls the module's own  *)
(* copies of the helpers, which read as those of rimappa_utils do.           *)

\* if price_unit is None and price_tot is not None and qty != 0:
\*     price_unit = price_tot / qty
DocAiUnitPrice(price_unit, price_tot, qty) ==
    IF ~IsSome(price_unit) /\ IsSome(price_tot) /\ qty.n # 0
    THEN Some(RatDiv(price_tot[1], qty))
    ELSE price_unit

\* The rows one table adds to prod_rows.  `table` and `row` say where a row
\* came from; the code reads neither.
RECURSIVE DocAiBodyProdRows(_, _, _, _, _, _, _)
DocAiBodyProdRows(body_rows, r, idx_cod, idx_quant, idx_price_unit, idx_price_tot, t) ==
    IF r > Len(body_rows) THEN <<>>
    ELSE LET cells == body_rows[r]
             rest == DocAiBodyProdRows(body_rows, r + 1, idx_cod, idx_quant,
                                  idx_price_unit, idx_price_tot, t) IN
         IF idx_cod > Len(cells) \/ idx_quant > Len(cells) THEN rest
         ELSE LET code == CellText(cells[idx_cod])
                  qty == ParseNumber(CellText(cells[idx_quant])) IN
              IF code # <<>> /\ IsSome(qty)
              THEN <<[codice_articolo |-> code,
                      quantita |-> qty[1],
                      prezzo |-> DocAiUnitPrice(ColumnNumber(cells, idx_price_unit),
                                           ColumnNumber(cells, idx_price_tot), qty[1]),
                      table |-> t, row |-> r]>> \o rest
              ELSE rest

DocAiTableProdRows(table, t) ==
    IF table.header_rows = <<>> THEN <<>>
    ELSE LET first_header_row == table.header_rows[1]
             header == [i \in DOMAIN first_header_row |->
                           Lower(CellText(first_header_row[i]))]
             idx_cod == HeaderIndex(header, Chars("codice articolo"))
             idx_quant == HeaderIndex(header, Chars("quantita'"))
             idx_price_unit == HeaderIndex(header, Chars("prezzo unitario"))
             idx_price_tot == HeaderIndex(header, Chars("prezzo totale")) IN
         IF idx_cod = 0 THEN <<>>
         ELSE IF idx_quant = 0 THEN <<>>
         ELSE DocAiBodyProdRows(table.body_rows, 1, idx_cod, idx_quant,
                           idx_price_unit, idx_price_tot, t)

RECURSIVE DocAiProdRowsFrom(_, _)
DocAiProdRowsFrom(tables, t) ==
    IF t > Len(tables) THEN <<>>
    ELSE DocAiTableProdRows(tables[t], t) \o DocAiProdRowsFrom(tables, t + 1)

DocAiProdRows(doc) == DocAiProdRowsFrom(Tables(doc.pages), 1)

\* price_map[code]: the price of the first row of that code that has one
DocAiPriceMap(prod_rows, code) ==
    LET priced == {i \in DOMAIN prod_rows :
                      IsSome(prod_rows[i].prezzo) /\ prod_rows[i].codice_articolo = code} IN
    IF priced = {} THEN None
    ELSE prod_rows[CHOOSE i \in priced : \A j \in priced : i <= j].prezzo

\* A match_price that takes the first row of the code whatever its quantity.
DocAiMatchPriceAnyFirst(prod_remaining, code, qty) ==
    LET same == {i \in DOMAIN prod_remaining : prod_remaining[i].codice_articolo = code} IN
    IF code = <<>> \/ same = {}
    THEN [price |-> None, prod_remaining |-> prod_remaining]
    ELSE LET i == CHOOSE i \in same : \A j \in same : i <= j IN
         [price |-> prod_remaining[i].prezzo, prod_remaining |-> RemoveAt(prod_remaining, i)]

\* match_price: the price of the row popped from prod_remaining, and what remains
DocAiMatchPrice(prod_remaining, code, qty) ==
    LET same == {i \in DOMAIN prod_remaining : prod_remaining[i].codice_articolo = code}
        exact == IF IsSome(qty)
                 THEN {i \in same : RatClose(prod_remaining[i].quantita, qty[1])}
                 ELSE {}
        from == IF exact # {} THEN exact ELSE same IN
    IF code = <<>> \/ from = {}
    THEN [price |-> None, prod_remaining |-> prod_remaining]
    ELSE LET i == CHOOSE i \in from : \A j \in from : i <= j IN
         [price |-> prod_remaining[i].prezzo, prod_remaining |-> RemoveAt(prod_remaining, i)]

\* The line items built from the "riga" entities, n of them built so far.
RECURSIVE DocAiRighe(_, _, _, _)
DocAiRighe(entities, prod_remaining, prod_rows, n) ==
    IF entities = <<>> THEN <<>>
    ELSE LET ent == Head(entities) IN
         IF Lower(GetEntityType(ent)[1]) # Chars("riga")
         THEN DocAiRighe(Tail(entities), prod_remaining, prod_rows, n)
         ELSE LET code == PropsGetText(ent.properties, Chars("codice_articolo"))
                  q1 == PropsGet(ent.properties, Chars("quantita"))
                  \* props.get("quantita") or props.get("quantità")
                  qty_str == IF Truthy(q1) THEN q1
                             ELSE PropsGet(ent.properties, Chars("quantità"))
                  qty == IF Truthy(qty_str) THEN ParseNumber(qty_str[1]) ELSE None
                  m == DocAiMatchPrice(prod_remaining, code, qty)
                  price == IF IsSome(m.price) THEN m.price ELSE DocAiPriceMap(prod_rows, code) IN
              <<[progressivo_riga |-> Str(n + 1),
                 riferimento |-> PropsGetText(ent.properties, Chars("riferimento")),
                 codice_articolo |-> code,
                 descrizione |-> PropsGetText(ent.properties, Chars("descrizione")),
                 quantita |-> IF IsSome(qty) THEN qty[1] ELSE Zero,
                 prezzo |-> IF IsSome(price) THEN price[1] ELSE Zero]>>
              \o DocAiRighe(Tail(entities), m.prod_remaining, prod_rows, n + 1)

\* The header fields: for each entity in order, the first of "fornitore",
\* "numero", "data" its type contains names the field its mention is stored in.
RECURSIVE DocAiHeaderFields(_, _)
DocAiHeaderFields(entities, risultato) ==
    IF entities = <<>> THEN risultato
    ELSE LET ent == Head(entities)
             etype == Lower(GetEntityType(ent)[1])
             evalue == Strip(ent.mention) IN
         DocAiHeaderFields(Tail(entities),
             IF Contains(etype, Chars("fornitore"))
             THEN [risultato EXCEPT !.fornitore = evalue]
             ELSE IF Contains(etype, Chars("numero"))
             THEN [risultato EXCEPT !.numero_documento = evalue]
             ELSE IF Contains(etype, Chars("data"))
             THEN [risultato EXCEPT !.data_documento = evalue]
             ELSE risultato)

RimappaDocumentAiResult(doc) ==
    LET prod_rows == DocAiProdRows(doc)
        head == DocAiHeaderFields(doc.entities,
                    [fornitore |-> <<>>, numero_documento |-> <<>>, data_documento |-> <<>>]) IN
    [fornitore |-> head.fornitore,
     numero_documento |-> head.numero_documento,
     data_documento |-> head.data_documento,
     riga |-> DocAiRighe(doc.entities, prod_rows, prod_rows, 0)]

\* Both normalizers applied to one document: what each raised or returned.
RimappaBoth(doc) ==
    /\ last = NoExchange
    /\ last' = [op |-> "rimappa_both", code |-> 0, doc |-> doc,
                rimappa_json |->
                    IF TypeRaises(doc)
                    THEN [raised |-> "AttributeError", risultato |-> NoResult]
                    ELSE [raised |-> "", risultato |-> RimappaJsonResult(doc)],
                rimappa_document_ai |->
                    IF TypeRaises(doc)
                    THEN [raised |-> "AttributeError", risultato |-> NoResult]
                    ELSE [raised |-> "", risultato |-> RimappaDocumentAiResult(doc)]]
    /\ UNCHANGED <<Requests, hist, tmp, tasks>>
    /\ UNCHANGED gui

NextBoth ==
    \/ /\ last = NoExchange
       /\ \E doc \in FormDocuments \cup PriceDocuments : RimappaBoth(doc)
    \/ Respond

SpecBoth == Init /\ [][NextBoth]_vars

----------------------------------------------------------------------------
(* The line items of the OCR+LLM orchestrator's result.  The reply of the   *)
(* model is JSON text; each line item's "quantità" and "prezzo" member is  *)
(* missing, the literal null (the prompt asks for null when unreadable), or *)
(* a number literal.                                                        *)

MaxItems == 2

JsonMembers == {Absent, Null, Text("5"), Text("0")}

ReplyItems == [quantita : JsonMembers, prezzo : JsonMembers]

Replies == SeqsUpTo(ReplyItems, MaxItems)

\* json.loads on one member: a missing member stays missing, null becomes
\* None, a number literal becomes a number.
JsonLoadsMember(m) ==
    IF m.kind = "absent" THEN [kind |-> "absent", num |-> Zero]
    ELSE IF m.kind = "null" THEN [kind |-> "none", num |-> Zero]
    ELSE [kind |-> "number", num |-> Float(m.text)[1]]

JsonLoadsItems(reply) ==
    [i \in DOMAIN reply |-> [quantita |-> JsonLoadsMember(reply[i].quantita),
                             prezzo |-> JsonLoadsMember(reply[i].prezzo)]]

\* extract_data_from_file: "data" is what the parse chain returned, as it is.
ExtractLineItems(provider, ocr, llm, reply) ==
    /\ last = NoExchange
    /\ LET r == ExtractDataFromFile(provider, ocr, llm) IN
       last' = [op |-> "extract_data_from_file", code |-> 0, ok |-> r.ok,
                riga |-> IF r.ok THEN JsonLoadsItems(reply) ELSE <<>>]
    /\ UNCHANGED <<Requests, hist, tmp, tasks>>
    /\ UNCHANGED gui

NextLines ==
    \/ /\ last = NoExchange
       /\ \E ocr \in SomeOcr, llm \in LlmOutcome, reply \in Replies :
              ExtractLineItems("openai", ocr, llm, reply)
    \/ /\ last = NoExchange
       /\ \E doc \in FormDocuments : RimappaJson(doc)
    \/ Respond

SpecLines == Init /\ [][NextLines]_vars

----------------------------------------------------------------------------
(* glocal_ai_confronto.main: the comparison command line *)

Methods == {"google", "chatgpt", "both"}

\* What extract_with_google_document_ai does: returns the normalized result or
\* raises (package missing, environment variables missing, the service call
\* failing, the normalizer raising).
GoogleOutcome == {"ok", "import_failed", "env_missing", "api_failed", "normalizer_raised"}

\* What extract_with_chatgpt does: returns the decoded reply or raises (OCR
\* failing, provider not supported, the model call failing, reply not JSON).
ChatgptOutcome == {"ok", "ocr_failed", "provider_unsupported", "llm_failed", "parse_failed"}

\* results[key] = value on a mapping kept as its items in insertion order
SetItem(results, key, value) ==
    IF \E i \in DOMAIN results : results[i][1] = key
    THEN [i \in DOMAIN results |->
             IF results[i][1] = key THEN <<key, value>> ELSE results[i]]
    ELSE Append(results, <<key, value>>)

\* The Google block of main: results and the calls made so far.
GoogleBlock(method, g, st) ==
    IF method \notin {"google", "both"} THEN st
    ELSE [results |-> IF g = "ok"
                      THEN SetItem(st.results, "google", "google_result")
                      ELSE SetItem(st.results, "google_error", g),
          calls |-> Append(st.calls, "extract_with_google_document_ai")]

\* The ChatGPT block of main.
ChatgptBlock(method, c, st) ==
    IF method \notin {"chatgpt", "both"} THEN st
    ELSE [results |-> IF c = "ok"
                      THEN SetItem(st.results, "chatgpt", "chatgpt_result")
                      ELSE SetItem(st.results, "chatgpt_error", c),
          calls |-> Append(st.calls, "extract_with_chatgpt")]

\* A main whose first failing method ends the run.
ConfrontoResultsStopAtError(method, g, c) ==
    LET st == GoogleBlock(method, g, [results |-> <<>>, calls |-> <<>>]) IN
    IF method \in {"google", "both"} /\ g # "ok" THEN st ELSE ChatgptBlock(method, c, st)

\* main after the file check: the Google block, then the ChatGPT block.
ConfrontoResults(method, g, c) ==
    ChatgptBlock(method, c,
        GoogleBlock(method, g, [results |-> <<>>, calls |-> <<>>]))

\* One run of the command line: a missing file raises before anything is
\* printed; otherwise the results are printed as one JSON object.
ConfrontoMain(method, isfile, g, c) ==
    /\ last = NoExchange
    /\ last' = IF ~isfile
               THEN [op |-> "confronto", code |-> 1, method |-> method, g |-> g, c |-> c,
                     raised |-> "FileNotFoundError", printed |-> FALSE,
                     results |-> <<>>, calls |-> <<>>]
               ELSE LET r == ConfrontoResults(method, g, c) IN
                    [op |-> "confronto", code |-> 0, method |-> method, g |-> g, c |-> c,
                     raised |-> "", printed |-> TRUE,
                     results |-> r.results, calls |-> r.calls]
    /\ UNCHANGED <<Requests, hist, tmp, tasks>>
    /\ UNCHANGED gui

NextConfronto ==
    \/ /\ last = NoExchange
       /\ \E method \in Methods, isfile \in BOOLEAN, g \in GoogleOutcome, c \in ChatgptOutcome :
              ConfrontoMain(method, isfile, g, c)
    \/ Respond

SpecConfronto == Init /\ [][NextConfronto]_vars

----------------------------------------------------------------------------
(* glocal_ai_confronto_gui: the handlers of the selectors, the worker thread *)
(* and the callback it schedules.                                            *)

InSeq(x, q) == \E i \in DOMAIN q : q[i] = x

\* apply_filter_to_models, on the thread that calls it
ApplyFilterToModels(g, thread) ==
    LET query == Lower(Strip(g.filter_var))
        filtered == IF query # <<>>
                    THEN SelectSeq(g.model_full_list, LAMBDA m : Contains(Lower(m), query))
                    ELSE g.model_full_list
        current == g.model_var IN
    [g EXCEPT !.combo_values = filtered,
              !.model_var = IF InSeq(current, filtered) THEN current
                            ELSE IF filtered # <<>> THEN filtered[1] ELSE <<>>,
              !.writers = IF InSeq(current, filtered) THEN @ ELSE @ \cup {thread}]

\* The operator picks a provider: the selector's variable is set and
\* on_provider_changed starts a worker for the provider read on the main thread.
ProviderChanged(provider) ==
    /\ Len(gui.workers) < MaxWorkers
    /\ gui' = [gui EXCEPT !.provider_var = provider,
                          !.workers = Append(@, NewWorker(provider))]
    /\ UNCHANGED <<Requests, hist, tmp, tasks, last>>

\* worker: the fetch returns and update_ui is scheduled on the main loop.
WorkerFetched(w, net) ==
    /\ gui.workers[w].pc = "fetching"
    /\ gui' = [gui EXCEPT !.workers[w].pc = "scheduled",
                          !.workers[w].models = FetchModelsForProvider(gui.workers[w].provider, net),
                          !.after = Append(@, w)]
    /\ UNCHANGED <<Requests, hist, tmp, tasks, last>>

\* update_ui of the worker whose callback is first in the main loop's queue
UpdateUi ==
    /\ gui.after # <<>>
    /\ LET w == Head(gui.after)
           g1 == [gui EXCEPT !.model_full_list = gui.workers[w].models,
                             !.writers = @ \cup {"main"},
                             !.after = Tail(@),
                             !.workers[w].pc = "applied"]
           g2 == ApplyFilterToModels(g1, "main")
           current == g2.model_var IN
       gui' = IF g2.model_full_list # <<>> /\ ~InSeq(current, g2.model_full_list)
              THEN [g2 EXCEPT !.model_var = g2.model_full_list[1]]
              ELSE g2
    /\ UNCHANGED <<Requests, hist, tmp, tasks, last>>

\* on_filter_changed: a key released in the filter entry
FilterChanged(text) ==
    /\ gui.filter_var # text
    /\ gui' = ApplyFilterToModels([gui EXCEPT !.filter_var = text], "main")
    /\ UNCHANGED <<Requests, hist, tmp, tasks, last>>

Filters == {<<>>, <<" ", "G", "P", "T">>}

NextGui ==
    \/ \E provider \in GuiProviders : ProviderChanged(provider)
    \/ \E w \in DOMAIN gui.workers, net \in {"ok", "failed"} : WorkerFetched(w, net)
    \/ UpdateUi
    \/ \E text \in Filters : FilterChanged(text)

SpecGui == Init /\ [][NextGui]_vars

----------------------------------------------------------------------------
(* Properties of the request handlers (SpecApi) *)

\* The names of FileNames whose lower-cased form ends in a supported extension.
NamesWithExtension == {APdf, UpperPdf, MixedJpg, XJpeg, XPng, DotPdf}
NamesWithout == {DocTxt, Doc, DocPdfExe, BarePdf, PdfDot}

\* C1: Upload Document with a supported file name and no database failure stages
\* the upload, creates exactly one Request record with Status 1 and answers
\* success, never HTTP 500.
C1_UploadCreatesRecord ==
    (last.op = "upload" /\ last.filename \in NamesWithExtension /\ ~last.dbRaised)
        => /\ last.code = 200
           /\ last.staged = 1
           /\ last.created = 1
           /\ Requests # <<>>
           /\ Requests[Len(Requests)].Status = StatusQueued

\* C2: Upload Document answers HTTP 400 exactly for the file names whose
\* lower-cased form does not end in .pdf, .png, .jpg or .jpeg.
C2_ExtensionCheck ==
    last.op = "upload" =>
        /\ last.filename \in NamesWithout => last.code = 400
        /\ last.filename \in NamesWithExtension => last.code # 400
        /\ last.filename \in NamesWithout \cup NamesWithExtension

C2_Witness ==
    /\ last.op = "upload"
    /\ last.filename = DocPdfExe
    /\ last.code = 400

\* C3: Get Status for a RecId no record has answers HTTP 404 when the lookup
\* itself did not fail.
C3_UnknownRecIdIs404 ==
    (last.op = "status" /\ last.recid \notin DOMAIN Requests /\ ~last.dbRaised)
        => last.code = 404

\* The prompts that are absent or blank after trimming.
BlankPrompts == {None, Some(<<>>), Some(<<" ">>), Some(<<" ", "\t">>)}

NoContent(req) ==
    /\ req.body \in {"object", "form"}
    /\ req.file = None
    /\ req.user_prompt \in BlankPrompts

\* C4: Run Pipeline with neither a file nor a prompt that is non-blank after
\* trimming, in a JSON object or in a form, answers HTTP 400, creates no
\* Request record and schedules no background task.
C4_NoContentIs400 ==
    [][(last = NoExchange /\ last'.op = "pipeline" /\ NoContent(last'.req))
          => /\ last'.code = 400
             /\ Requests' = Requests
             /\ tasks' = tasks
             /\ tmp' = tmp]_vars

C4_Witness ==
    /\ last.op = "pipeline"
    /\ last.req.ct \in JsonTypes
    /\ last.req.body = "object"
    /\ last.req.user_prompt = None
    /\ last.code = 400

----------------------------------------------------------------------------
(* Properties of the processing lifecycle (Spec) *)

Status(v) == Event("status", v)

\* What a submission whose calls all return leaves in the history of its row.
ExpectedHistory(withFile) ==
    IF withFile
    THEN <<Status(1), Status(2), Event("extract", 1), Event("save", 0), Status(4)>>
    ELSE <<Status(1), Status(2), Status(4)>>

IsPrefix(a, b) == Len(a) <= Len(b) /\ SubSeq(b, 1, Len(a)) = a

StatusValues(h) == SelectSeq(h, LAMBDA e : e.ev = "status")

C6_FailureRecordedAs98 ==
    \A t \in DOMAIN tasks :
        (tasks[t].pc = "done" /\ tasks[t].failed)
            => Requests[tasks[t].recid].Status = StatusPipelineError

\* C7: once a row's Status is terminal (4, 97, 98 or 99), no step writes the
\* row's Status or processes the row again.
C7_TerminalIsFinal ==
    [][\A r \in DOMAIN Requests :
          Requests[r].Status \in {4, 97, 98, 99} => hist'[r] = hist[r]]_vars

\* C8: when the background task or the CLI pipeline run has ended, the row's
\* Status is 4 if processing completed and 97, 98 or 99 if it failed.
C8_EndsWithStatusCode ==
    /\ \A t \in DOMAIN tasks :
          tasks[t].pc = "done" =>
              IF tasks[t].failed
              THEN Requests[tasks[t].recid].Status \in {97, 98, 99}
              ELSE Requests[tasks[t].recid].Status = 4
    /\ (last.op = "cli-pipeline" /\ last.inserted # 0) =>
          IF last.failed
          THEN Requests[last.inserted].Status \in {97, 98, 99}
          ELSE Requests[last.inserted].Status = 4

----------------------------------------------------------------------------
(* Staging files and the orchestrator (SpecApi) *)

\* C9: no staging file exists once the operation that created it has ended.
C9_StagingFilesRemoved ==
    \A i \in DOMAIN tmp : tmp[i].ended => ~tmp[i].exists

\* The message the OCR text extractor raises with, by failure.
OcrMessage(ocr) ==
    IF ocr = "conversion_failed"
    THEN <<"Errore durante l'OCR: ", "PDF conversion failed: ", "conv_err">>
    ELSE IF ocr = "file_not_found"
    THEN <<"Errore durante l'OCR: ", "PDF conversion failed: ", "No such file or directory">>
    ELSE <<"Errore durante l'OCR: ", "tesseract_err">>

\* C10: the orchestrator calls the OCR text extractor first and the LLM agent
\* only when OCR returned; when OCR fails it raises RuntimeError with the
\* processing phrase followed by the OCR error, and the agent is not called.
C10_OcrBeforeLlm ==
    last.op = "extract" =>
        LET res == last.res IN
        /\ res.calls[1] = "ocr"
        /\ \A i \in DOMAIN res.calls :
              res.calls[i] \in {"llm_agent", "llm"} => (i > 1 /\ last.ocr = "ok")
        /\ last.ocr # "ok" =>
              /\ ~res.ok
              /\ res.cls = "RuntimeError"
              /\ res.msg = <<ProcessingPhrase>> \o OcrMessage(last.ocr)
              /\ res.calls = <<"ocr">>

C10_Witness ==
    /\ last.op = "extract"
    /\ last.ocr = "conversion_failed"
    /\ last.llm = "valid_json"
    /\ last.code = 500

----------------------------------------------------------------------------
(* Errors of the orchestrator and the parse chain of the agent (SpecApi) *)

\* The failure of the first stage that fails, as the stage raised it.
InnerResult(provider, ocr, llm) ==
    LET t == ExtractTextFromPdf(ocr) IN
    IF ~t.ok THEN t ELSE ExtractDataFromText(t.val, provider, llm)

\* C11: whichever stage fails (OCR, provider check, LLM call, parsing), the
\* orchestrator raises RuntimeError whose message is the processing phrase
\* followed by the message of the stage's error; it fails only when a stage does.
C11_OneErrorKind ==
    last.op = "extract" =>
        LET res == last.res
            inner == InnerResult(last.provider, last.ocr, last.llm) IN
        /\ res.ok <=> inner.ok
        /\ ~res.ok => /\ res.cls = "RuntimeError"
                      /\ res.msg = <<ProcessingPhrase>> \o inner.msg

C11_Witness ==
    /\ last.op = "extract"
    /\ last.provider = "azure"
    /\ last.ocr = "ok"
    /\ ~last.res.ok
    /\ last.res.cls = "RuntimeError"
    /\ last.res.msg[2] = "Provider '"

\* C12: Extract Synchronously answers HTTP 404 when the orchestrator failed on
\* a missing file and HTTP 500 when it failed for any other reason.
C12_FileNotFoundIs404 ==
    (last.op = "extract" /\ ~last.res.ok)
        => last.code = IF last.ocr = "file_not_found" THEN 404 ELSE 500

\* The parsers the agent ran, in order, after the model replied.
ParseCalls(res) == SubSeq(res.calls, 4, Len(res.calls))

ParseOrder == <<"json.loads", "jr_loads", "jr_repair">>

\* Whether the i-th parser of the chain accepts the reply.
ParserOk(i, reply) ==
    IF i = 1 THEN JsonLoadsOk(reply)
    ELSE IF i = 2 THEN JrLoadsOk(reply)
    ELSE JrRepairOk(reply)

\* C13: the agent runs json.loads, jr_loads, jr_repair in that order, runs a
\* parser only when every earlier one rejected the reply, returns what the
\* first accepting parser produced, and returns a reply that is valid JSON as
\* json.loads decoded it.
C13_ParseChain ==
    (last.op = "extract" /\ last.ocr = "ok" /\ last.llm # "call_failed"
        /\ last.provider \in {"openai", "openrouter"}) =>
        LET res == last.res
            parsers == ParseCalls(res) IN
        /\ Len(parsers) \in 1..3
        /\ parsers = SubSeq(ParseOrder, 1, Len(parsers))
        /\ \A i \in DOMAIN parsers : \A j \in 1..(i - 1) : ~ParserOk(j, last.llm)
        /\ res.ok <=> ParserOk(Len(parsers), last.llm)
        /\ res.ok => res.val.data = <<parsers[Len(parsers)], last.llm>>
        /\ JsonLoadsOk(last.llm) => (res.ok /\ res.val.data = <<"json.loads", last.llm>>)

C13_Witness ==
    /\ last.op = "extract"
    /\ last.ocr = "ok"
    /\ last.provider = "openrouter"
    /\ last.llm = "repair_only"
    /\ last.res.ok
    /\ last.res.val.data = <<"jr_repair", "repair_only">>

\* C14: when the three parsers all reject the reply, the error the agent raises
\* carries the raw reply in its message.
C14_ParseFailureCarriesReply ==
    (last.op = "extract" /\ last.ocr = "ok" /\ last.llm = "unparseable"
        /\ last.provider \in {"openai", "openrouter"}) =>
        /\ ~last.res.ok
        /\ \E i \in DOMAIN last.res.msg : last.res.msg[i] = Response(last.llm)

----------------------------------------------------------------------------
(* Create Request (SpecCli) *)

\* C17: a record created from a file path with no original filename has the
\* basename of the path as its Filename.
C17_FilenameDefaultsToBasename ==
    (last.op = "cli-positional" /\ last.inserted # 0 /\ ~Truthy(last.original_filename))
        => Requests[last.inserted].Filename = Basename(last.file[1].name)

----------------------------------------------------------------------------
(* Update Status (Spec) *)

StatusCodes == {StatusQueued, StatusProcessing} \cup TerminalStatus

\* C18: on every table the program reaches, for every RecId and status code,
\* Update Status applied twice gives the table it gives applied once, and
\* applied once it changes only the Status of the row with that RecId.
C18_UpdateStatusIdempotent ==
    \A recid \in 1..(MaxRec + 1), status \in StatusCodes :
        LET once == UpdateStatusRows(Requests, recid, status, "ok")
            twice == UpdateStatusRows(once, recid, status, "ok") IN
        /\ twice = once
        /\ DOMAIN once = DOMAIN Requests
        /\ \A r \in DOMAIN Requests :
              once[r] = IF r = recid THEN [Requests[r] EXCEPT !.Status = status]
                        ELSE Requests[r]

\* Update Status has run on a row that holds saved results, beside another row.
C18_Witness ==
    /\ Len(Requests) = 2
    /\ \E r \in DOMAIN Requests :
          /\ Requests[r].Status = StatusDone
          /\ IsSome(Requests[r].ExtractedData)
          /\ \E i \in DOMAIN hist[r] : hist[r][i] = Event("status", StatusProcessing)
    /\ \E r \in DOMAIN Requests : Requests[r].Status # StatusDone

----------------------------------------------------------------------------
(* Verify Document (SpecVerify) *)

\* How many times code c occurs in the sequence q.
Count(q, c) == Cardinality({i \in DOMAIN q : q[i] = c})

\* C15: each distinct codice_articolo of the line items is posted to the
\* article endpoint exactly once, and articoli_trovati and articoli_mancanti
\* are disjoint and together hold exactly the distinct codes.
C15_EachCodeQueriedOnce ==
    last.op = "verify" =>
        /\ \A c \in ArticleCodes :
              Count(last.posts, c) = IF c \in Range(last.righe) THEN 1 ELSE 0
        /\ Range(last.articoli_trovati) \cap Range(last.articoli_mancanti) = {}
        /\ Range(last.articoli_trovati) \cup Range(last.articoli_mancanti) = Range(last.righe)

\* Two line items share a code that the ERP has.
C15_Witness ==
    /\ last.op = "verify"
    /\ last.righe = <<"A1", "B2", "A1">>
    /\ last.erp["A1"] = "found"
    /\ last.posts = <<"B2", "A1">>
    /\ last.articoli_trovati = <<"A1">>
    /\ last.articoli_mancanti = <<"B2">>

LookupFailed(o) == o \in {"status_error", "network_error"}

\* C16: a failed lookup never aborts the verification: the answer is still
\* given; a failed customer lookup gives cliente = FALSE; a code whose lookup
\* failed is in articoli_mancanti and not in articoli_trovati; and every
\* distinct code is posted whichever lookups failed.
C16_LookupFailureIsNotFound ==
    last.op = "verify" =>
        /\ last.code = 200
        /\ last.customer_posts = 1
        /\ LookupFailed(last.cust) => (~last.cliente /\ last.codice_cliente = None)
        /\ Range(last.posts) = Range(last.righe)
        /\ \A c \in Range(last.righe) :
              LookupFailed(last.erp[c]) =>
                  /\ c \notin Range(last.articoli_trovati)
                  /\ c \in Range(last.articoli_mancanti)
        /\ \A c \in Range(last.righe) :
              last.erp[c] = "found" => c \in Range(last.articoli_trovati)

\* The customer lookup and the first article lookup fail, the second finds.
C16_Witness ==
    /\ last.op = "verify"
    /\ last.cust = "network_error"
    /\ last.posts = <<"A1", "B2">>
    /\ last.erp["A1"] = "status_error"
    /\ last.erp["B2"] = "found"
    /\ last.articoli_trovati = <<"B2">>
    /\ ~last.cliente

----------------------------------------------------------------------------
(* Document-AI result normalizer (SpecNorm) *)

\* The first header row of the table has a cell that reads "codice articolo"
\* once lower-cased.
HasCodeHeader(table) ==
    /\ table.header_rows # <<>>
    /\ \E i \in DOMAIN table.header_rows[1] :
          Lower(Strip(table.header_rows[1][i])) = Chars("codice articolo")

\* C19: a table whose first header row has no cell reading "codice articolo"
\* adds no row to the price candidates, and the price of every line item is
\* the price of a candidate of a table that has the cell, or 0.
C19_NoCodeHeaderNoRows ==
    last.op = "rimappa" =>
        LET tables == Tables(last.doc.pages) IN
        /\ \A i \in DOMAIN last.prod_rows : HasCodeHeader(tables[last.prod_rows[i].table])
        /\ \A k \in DOMAIN last.risultato.riga :
              LET item == last.risultato.riga[k] IN
              \/ item.prezzo = Zero
              \/ \E i \in DOMAIN last.prod_rows :
                    /\ last.prod_rows[i].codice_articolo = item.codice_articolo
                    /\ last.prod_rows[i].prezzo = Some(item.prezzo)

\* A table without the cell stands beside one with it; the line item for A1
\* is priced from the latter.
C19_Witness ==
    /\ last.op = "rimappa"
    /\ LET tables == Tables(last.doc.pages) IN
       /\ Len(tables) = 2
       /\ tables[1].header_rows = <<HeadLongCode>>
       /\ tables[1].body_rows # <<>>
       /\ HasCodeHeader(tables[2])
    /\ \A i \in DOMAIN last.prod_rows : last.prod_rows[i].table = 2
    /\ Len(last.risultato.riga) = 1
    /\ last.risultato.riga[1].codice_articolo = Chars("A1")
    /\ last.risultato.riga[1].prezzo = Rat(10, 1)

\* The number a cell of the row a candidate came from reads as.
SourceNumber(doc, cand, name) ==
    LET table == Tables(doc.pages)[cand.table]
        header == table.header_rows[1]
        at == {i \in DOMAIN header : Lower(Strip(header[i])) = Chars(name)}
        cells == table.body_rows[cand.row] IN
    IF at = {} THEN None
    ELSE LET i == CHOOSE i \in at : \A j \in at : i <= j IN
         IF i > Len(cells) THEN None ELSE ParseNumber(Strip(cells[i]))

\* C20: a candidate row with quantity q, no usable unit price and total t has
\* the unit price t / q when q is not 0 and no price when q is 0.
C20_UnitPriceFromTotal ==
    last.op = "rimappa" =>
        \A i \in DOMAIN last.prod_rows :
            LET cand == last.prod_rows[i]
                q == SourceNumber(last.doc, cand, "quantita'")
                u == SourceNumber(last.doc, cand, "prezzo unitario")
                t == SourceNumber(last.doc, cand, "prezzo totale") IN
            /\ q = Some(cand.quantita)
            /\ (~IsSome(u) /\ IsSome(t)) =>
                  IF q[1].n = 0
                  THEN cand.prezzo = None
                  ELSE /\ IsSome(cand.prezzo)
                       /\ cand.prezzo[1].n * q[1].n * t[1].d = t[1].n * q[1].d * cand.prezzo[1].d

\* The row A1, 5, 50 gives 10; the row A1, 0, 50 of the same table gives no price.
C20_Witness ==
    /\ last.op = "rimappa"
    /\ \E i, j \in DOMAIN last.prod_rows :
          /\ last.prod_rows[i].codice_articolo = Chars("A1")
          /\ last.prod_rows[i].quantita = Rat(5, 1)
          /\ SourceNumber(last.doc, last.prod_rows[i], "prezzo totale") = Some(Rat(50, 1))
          /\ SourceNumber(last.doc, last.prod_rows[i], "prezzo unitario") = None
          /\ last.prod_rows[i].prezzo = Some(Rat(10, 1))
          /\ last.prod_rows[j].quantita = Zero
          /\ last.prod_rows[j].prezzo = None

----------------------------------------------------------------------------
(* Properties of the normalizer on both document forms (SpecForms) *)

\* C21: the normalizer never raises to its caller: for every input document,
\* typed-object or plain-mapping, with absent or null entity types, it returns
\* a result.
C21_NeverRaises ==
    last.op = "rimappa" => last.raised = ""

----------------------------------------------------------------------------
(* Properties of the line items of both extraction methods (SpecLines) *)

\* C22: every line item of a completed extraction has a quantity and a price
\* that are present and not null, in the normalizer's output and in the
\* result of the OCR+LLM orchestrator alike.
C22_LineItemsComplete ==
    /\ (last.op = "rimappa" /\ last.raised = "") =>
           \A i \in DOMAIN last.risultato.riga :
               {"quantita", "prezzo"} \subseteq DOMAIN last.risultato.riga[i]
    /\ (last.op = "extract_data_from_file" /\ last.ok) =>
           \A i \in DOMAIN last.riga :
               /\ last.riga[i].quantita.kind = "number"
               /\ last.riga[i].prezzo.kind = "number"

----------------------------------------------------------------------------
(* Properties of the comparison command line (SpecConfronto) *)

ResultKeys == {last.results[i][1] : i \in DOMAIN last.results}

\* C23: each selected method's failure is caught on its own: with "both" a
\* failure of one method does not keep the other from running, and the
\* printed object has exactly one of google / google_error when Google was
\* selected, exactly one of chatgpt / chatgpt_error when ChatGPT was selected,
\* and no key of a method that was not selected.
C23_MethodsIndependent ==
    (last.op = "confronto" /\ last.printed) =>
        LET google == last.method \in {"google", "both"}
            chatgpt == last.method \in {"chatgpt", "both"}
            ran == {last.calls[i] : i \in DOMAIN last.calls} IN
        /\ Len(last.results) = Cardinality(ResultKeys)
        /\ google <=> "extract_with_google_document_ai" \in ran
        /\ chatgpt <=> "extract_with_chatgpt" \in ran
        /\ Cardinality(ResultKeys \cap {"google", "google_error"}) = (IF google THEN 1 ELSE 0)
        /\ Cardinality(ResultKeys \cap {"chatgpt", "chatgpt_error"}) = (IF chatgpt THEN 1 ELSE 0)
        /\ "google" \in ResultKeys <=> (google /\ last.g = "ok")
        /\ "chatgpt" \in ResultKeys <=> (chatgpt /\ last.c = "ok")

\* Both methods selected, Google failed, and ChatGPT ran and succeeded.
C23_Witness ==
    /\ last.op = "confronto" /\ last.printed
    /\ last.method = "both" /\ last.g # "ok"
    /\ ResultKeys = {"google_error", "chatgpt"}

----------------------------------------------------------------------------
(* Properties of the price matching (SpecPrices) *)

\* The row match_price popped, if any: the first place where the list before
\* and the list after differ.
Popped(before, after) ==
    IF Len(after) = Len(before) THEN None
    ELSE LET at == {i \in DOMAIN before : i > Len(after) \/ before[i] # after[i]} IN
         Some(before[CHOOSE i \in at : \A j \in at : i <= j])

\* The table row whose price a line item carries: the popped row when it has a
\* price, else the row the by-code lookup took its price from.
PriceSource(step, prod_rows) ==
    LET popped == Popped(step.before, step.after)
        priced == {i \in DOMAIN prod_rows :
                      /\ IsSome(prod_rows[i].prezzo)
                      /\ prod_rows[i].codice_articolo = step.codice_articolo} IN
    IF IsSome(popped) /\ IsSome(popped[1].prezzo)
    THEN Some(<<popped[1].table, popped[1].row>>)
    ELSE IF priced # {}
    THEN LET i == CHOOSE i \in priced : \A j \in priced : i <= j IN
         Some(<<prod_rows[i].table, prod_rows[i].row>>)
    ELSE None

LastTrace == PriceTrace(last.doc.entities, last.prod_rows, last.prod_rows)

\* C24: each table row is consumed at most once, and no table row's price is
\* attributed to two different line items, however many "riga" entities share
\* a code.
C24_RowPriceOnce ==
    (last.op = "rimappa" /\ last.raised = "") =>
        \A k1, k2 \in DOMAIN LastTrace :
            k1 < k2 =>
                LET s1 == PriceSource(LastTrace[k1], last.prod_rows)
                    s2 == PriceSource(LastTrace[k2], last.prod_rows)
                    p1 == Popped(LastTrace[k1].before, LastTrace[k1].after)
                    p2 == Popped(LastTrace[k2].before, LastTrace[k2].after) IN
                /\ IsSome(p1) => p1 # p2
                /\ IsSome(s1) => s1 # s2

\* The unconsumed rows of a code, and those of them within 1e-6 of a quantity.
SameCode(remaining, code) ==
    IF code = <<>> THEN {}
    ELSE {i \in DOMAIN remaining : remaining[i].codice_articolo = code}

ExactQty(remaining, code, qty) ==
    IF IsSome(qty)
    THEN {i \in SameCode(remaining, code) : RatClose(remaining[i].quantita, qty[1])}
    ELSE {}

FirstOf(S) == CHOOSE i \in S : \A j \in S : i <= j

OrZero(p) == IF IsSome(p) THEN p[1] ELSE Zero

\* The prices the stated order gives when "else" means "when there is no such
\* row": a row that matches decides the price, and the lookup is for the
\* entities no row matched.
RECURSIVE StatedByRow(_, _, _)
StatedByRow(keys, remaining, prod_rows) ==
    IF keys = <<>> THEN <<>>
    ELSE LET code == Head(keys).codice_articolo
             exact == ExactQty(remaining, code, Head(keys).qty)
             same == SameCode(remaining, code)
             from == IF exact # {} THEN exact ELSE same IN
         IF from # {}
         THEN <<OrZero(remaining[FirstOf(from)].prezzo)>>
              \o StatedByRow(Tail(keys), RemoveAt(remaining, FirstOf(from)), prod_rows)
         ELSE <<OrZero(PriceMap(prod_rows, code))>>
              \o StatedByRow(Tail(keys), remaining, prod_rows)

\* The prices the stated order gives when "else" means "when that gave no
\* price": each source is tried in turn until one gives a price.
RECURSIVE StatedByPrice(_, _, _)
StatedByPrice(keys, remaining, prod_rows) ==
    IF keys = <<>> THEN <<>>
    ELSE LET code == Head(keys).codice_articolo
             exact == ExactQty(remaining, code, Head(keys).qty)
             p1 == IF exact # {} THEN remaining[FirstOf(exact)].prezzo ELSE None
             r1 == IF exact # {} THEN RemoveAt(remaining, FirstOf(exact)) ELSE remaining
             same == SameCode(r1, code)
             second == ~IsSome(p1) /\ same # {}
             p2 == IF second THEN r1[FirstOf(same)].prezzo ELSE p1
             r2 == IF second THEN RemoveAt(r1, FirstOf(same)) ELSE r1 IN
         <<OrZero(IF IsSome(p2) THEN p2 ELSE PriceMap(prod_rows, code))>>
         \o StatedByPrice(Tail(keys), r2, prod_rows)

LastPrices == [k \in DOMAIN last.risultato.riga |-> last.risultato.riga[k].prezzo]

\* C25 as stated: for each "riga" entity the price comes from the first
\* unconsumed row of its code within 1e-6 of its quantity (removed); else from
\* the first unconsumed row of its code (removed); else from the by-code
\* lookup; else it is 0.0 - under either reading of "else".
C25_StatedOrder ==
    (last.op = "rimappa" /\ last.raised = "") =>
        \/ LastPrices = StatedByRow(LastTrace, last.prod_rows, last.prod_rows)
        \/ LastPrices = StatedByPrice(LastTrace, last.prod_rows, last.prod_rows)

----------------------------------------------------------------------------
(* Properties of concurrent background tasks (Spec) *)

\* The Status the committed writes on a row leave, in the order they were made.
LastStatus(h) ==
    LET at == {i \in DOMAIN h : h[i].ev = "status"} IN
    h[CHOOSE i \in at : \A j \in at : i >= j].val

\* C26: the background tasks of two Run Pipeline submissions work on two
\* different records and two different temp files; a step of a task changes
\* only the row of its own RecId and only its own temp file, whatever the other
\* task is doing, so each row holds what the writes made for it alone leave:
\* the Status of the last of them, and extraction results exactly when they
\* were saved for it.
C26_TasksIndependent ==
    /\ [](\A t \in DOMAIN tasks :
            LET r == tasks[t].recid IN
            /\ r \in DOMAIN Requests
            /\ Requests[r].Status = LastStatus(hist[r])
            /\ IsSome(Requests[r].ExtractedText)
                  <=> (\E i \in DOMAIN hist[r] : hist[r][i].ev = "save")
            /\ \A u \in DOMAIN tasks :
                  u # t => /\ tasks[u].recid # r
                           /\ IsSome(tasks[t].tmp_path) => tasks[u].tmp_path # tasks[t].tmp_path)
    /\ [][\A t \in DOMAIN tasks :
            tasks'[t] # tasks[t] =>
                /\ \A r \in DOMAIN Requests :
                      r # tasks[t].recid => Requests'[r] = Requests[r]
                /\ \A i \in DOMAIN tmp :
                      (IsSome(tasks[t].tmp_path) => i # tasks[t].tmp_path[1].id)
                          => tmp'[i] = tmp[i]]_vars

\* The task submitted second has finished with Status 4 while the task
\* submitted first, already at Status 2, has not yet extracted.
C26_Witness ==
    /\ Len(tasks) = 2
    /\ tasks[1].pc = "extract" /\ Requests[tasks[1].recid].Status = StatusProcessing
    /\ tasks[2].pc = "done" /\ ~tasks[2].failed
    /\ IsSome(tasks[2].tmp_path)
    /\ Requests[tasks[2].recid].Status = StatusDone
    /\ ~tmp[tasks[2].tmp_path[1].id].exists
    /\ tmp[tasks[1].tmp_path[1].id].exists

----------------------------------------------------------------------------
(* Properties of the two normalizers (SpecBoth) *)

\* C27: gdocai.rimappa_json and glocal_ai_confronto.rimappa_document_ai give
\* the same result for every document: the same header fields and the same
\* line items in the same order, with the same progressivo_riga, quantity and
\* price.
C27_SameResult ==
    last.op = "rimappa_both" =>
        /\ last.rimappa_json.raised = last.rimappa_document_ai.raised
        /\ last.rimappa_json.risultato = last.rimappa_document_ai.risultato

\* Both returned two line items for the code A1, the first priced 25 from the
\* row of its quantity, which is not the first row of the code.
C27_Witness ==
    /\ last.op = "rimappa_both"
    /\ last.rimappa_document_ai.raised = ""
    /\ Len(last.rimappa_document_ai.risultato.riga) = 2
    /\ last.rimappa_document_ai.risultato.riga[1].quantita = Rat(2, 1)
    /\ last.rimappa_document_ai.risultato.riga[1].prezzo = Rat(25, 1)
    /\ last.rimappa_document_ai.risultato.riga[2].progressivo_riga = Str(2)
    /\ Len(Tables(last.doc.pages)[1].body_rows) = 3
    /\ Tables(last.doc.pages)[1].body_rows[1] = Row(<<"A1", "5", "50">>)

----------------------------------------------------------------------------
(* Properties of Run Pipeline and its tasks alone (SpecPipe) *)

\* Nothing is left to run for the row: the submission has been answered and
\* the row's task, if it has one, is done.  No step changes the row from here.
NothingLeft(r) ==
    /\ last = NoExchange
    /\ \A t \in DOMAIN tasks : tasks[t].recid = r => tasks[t].pc = "done"

\* C28: every record Run Pipeline inserted reaches a terminal Status (4 or an
\* error code): once nothing is left to run for it, its Status is not 1 or 2,
\* also when Create Request failed after its insert was committed and when the
\* error-status write failed.
C28_ReachesTerminalStatus ==
    \A r \in DOMAIN Requests :
        NothingLeft(r) => Requests[r].Status \in TerminalStatus

----------------------------------------------------------------------------
(* Properties of the comparison GUI's model list (SpecGui) *)

\* C29: once every worker thread has finished and its update has been applied
\* on the interactive thread, model_full_list holds the models fetched for the
\* provider that is selected, whatever order the workers finished in; and
\* model_full_list and the model selection are written on the interactive
\* thread only.
C29_ListOfSelectedProvider ==
    /\ gui.writers \subseteq {"main"}
    /\ (\A w \in DOMAIN gui.workers : gui.workers[w].pc = "applied") =>
           \E w \in DOMAIN gui.workers :
               /\ gui.workers[w].provider = gui.provider_var
               /\ gui.workers[w].models = gui.model_full_list

----------------------------------------------------------------------------
(* Properties of the order of the writes on a row (Spec) *)

\* C30: a record created with a file by Run Pipeline or by CLI pipeline mode
\* that has Status 4 has its ExtractedText and ExtractedData stored, and among
\* the committed writes on the row the one that stored them comes before every
\* write of Status 4.
C30_ResultsBeforeDone ==
    \A r \in DOMAIN Requests :
        IsSome(Requests[r].Data) =>
            /\ Requests[r].Status = StatusDone =>
                  /\ IsSome(Requests[r].ExtractedText)
                  /\ IsSome(Requests[r].ExtractedData)
            /\ \A i \in DOMAIN hist[r] :
                  hist[r][i] = Event("status", StatusDone) =>
                      \E j \in 1..(i - 1) : hist[r][j].ev = "save"

\* A row of a Run Pipeline upload and a row of a CLI pipeline run, both at
\* Status 4 with their extraction results stored.
C30_Witness ==
    \E r1, r2 \in DOMAIN Requests :
        /\ IsSome(Requests[r1].Data) /\ Requests[r1].Data[1].kind = "tmp"
        /\ IsSome(Requests[r2].Data) /\ Requests[r2].Data[1].kind = "user"
        /\ \A r \in {r1, r2} :
              /\ Requests[r].Status = StatusDone
              /\ IsSome(Requests[r].ExtractedText)
              /\ IsSome(Requests[r].ExtractedData)

====
